---- MODULE Spec2Model ----
(***************************************************************************)
(* Model of the event-delivery core of the agenttrace Python SDK:          *)
(*   - BatchQueue and AsyncBatchQueue (agenttrace/transport/batch.py)      *)
(*   - HttpTransport   (sdk/python/agenttrace/transport/http.py)           *)
(*   - the context store (sdk/python/agenttrace/context.py)                *)
(*   - AgentTrace, Trace, Span, Generation (agenttrace/client.py)          *)
(*   - @observe (agenttrace/decorators.py), generation() (generation.py)   *)
(*   - run() and terminal_scope() (agenttrace/terminal.py)                 *)
(* Each component has its own specification over its own variables; the    *)
(* variables of the other components stay at their initial values.         *)
(***************************************************************************)
EXTENDS Integers, Sequences, FiniteSets, TLC

(* ------------------------------------------------------------------ *)
(* Bounds of the model                                                 *)
(* ------------------------------------------------------------------ *)
\* number of add() calls in a run, over all producers
MaxAdds == 2
\* the flush_at the queue is constructed with
FlushAt == 2
\* the max_queue_size the queue is constructed with
MaxQueueSize == 1
\* flush_interval, in clock ticks
FlushInterval == 1
\* number of explicit flush() calls of the controlling thread
MaxFlushCalls == 1
\* number of context-store calls in a run, over all tasks
MaxCtxOps == 5
\* number of scopes, or of wrappers, open at once
MaxDepth == 2
\* number of traces, spans and generations made in a run
MaxObjs == 3
\* number of calls the main thread makes on the client and its objects
MaxCalls == 3

\* number of stop() calls of the controlling thread
MaxStopCalls == 2

\* number of calls made on the HttpTransport
MaxHttpCalls == 2
\* number of start_generation() and GenerationContext.end() calls of one task
MaxGenCalls == 4

\* the producer threads calling BatchQueue.add()
Producers == {"p1", "p2"}
\* a record <<p, i>> is the i-th record its producer p passes to add()
Records == Producers \X (1..MaxAdds)

\* what Transport.send_batch can do to its caller: return True, return False, raise
SendOutcomes == {"ok", "fail", "raise"}

SeqToSet(s) == {s[i] : i \in 1..Len(s)}

VARIABLES
    \* ---- BatchQueue ----
    flush_at,        \* self._flush_at
    max_queue_size,  \* self._max_queue_size
    queue,           \* self._queue (FIFO of records)
    batch,           \* self._batch (the accumulator)
    running,         \* self._running
    sinceFlush,      \* time.time() - last_flush, in ticks, saturating at FlushInterval
    pcW,             \* position of the background worker in _flush_loop
    wEvent,          \* _flush_loop local `event` (<<>> when it holds none)
    wEvents,         \* _flush_loop local `events`
    wElapsed,        \* _flush_loop: now - last_flush of the check that took `events`
    pcM,             \* position of the controlling thread in flush()/stop()
    mOp,             \* which call the controlling thread is in: "none", "flush", "stop"
    mEvents,         \* flush() local `events`
    mSnap,           \* records accepted before the current/last flush() or stop() call
    mError,          \* an exception reached the caller of flush()/stop()
    flushCalls,      \* number of flush() calls made so far
    stopCalled,      \* stop() has been called
    stopCalls,       \* number of stop() calls made so far
    stopReturned,    \* stop() has returned
    lastReturned,    \* the call that returned last: "none", "flush", "stop"
    addAfterStop,    \* some add() ran after stop() was called
    lateAdds,        \* records accepted by an add() that ran after stop() had returned
    nextRec,         \* per producer: index of the next record it will add
    addRet,          \* per producer: what its last add() returned ("none" before)
    dropped,         \* records whose add() returned False
    sent,            \* the batches passed to Transport.send_batch, in call order
    failed,          \* records of the batches whose send returned False or raised
    \* ---- HttpTransport: one call of send_batch, get or post ----
    hPc,             \* "idle", "loop" (in the retry loop), "done" (the call is over)
    hOp,             \* the operation called: "send_batch", "get", "post"
    hMax,            \* self.max_retries
    hAttempt,        \* the loop variable `attempt`
    hLog,            \* the outcome of every HTTP request the call made, in order
    hWaits,          \* the time.sleep() durations, in half seconds, in order
    hResult,         \* what the call returned, or "raised"
    hCalls,          \* number of calls made on the transport so far
    \* ---- context store: one contextvars.Context per task ----
    tStatus,         \* per task: "unborn" or "running"
    tHow,            \* per task: how it was started: "main", "thread", "task", "none"
    ctxv,            \* per task and ContextVar: the value in the task's context (0: None)
    spawnSnap,       \* per task: the context of its parent when the task was started
    lastSet,         \* per task and ContextVar: the value the task stored last (Unset: none)
    lastGet,         \* the last get_*() call: its task, its ContextVar, the value returned
    ctxOps,          \* number of context-store calls made so far
    scopes,          \* the open scopes of the main task, innermost last
    outer,           \* per ContextVar: its value before the outermost open scope was entered
    scopeExc,        \* an exception left the scope that was exited last
    depthSeen,       \* the deepest nesting since the outermost open scope was entered
    \* ---- observation model: the client and the objects of the main thread ----
    cState,          \* the AgentTrace client: "none", "enabled" or "disabled"
    objs,            \* per id: the Trace, Span or Generation with that id
    emitted,         \* the records passed to _batch_queue.add, in call order
    oNow,            \* datetime.utcnow(): the number of calls made so far
    frames,          \* the open @observe and generation() wrappers, innermost last
    lastCall,        \* the last call: see Call
    nInfos,          \* number of tracking calls made so far
    \* ---- two threads that call end() on one object ----
    endPc,           \* per thread: its position in end()
    endArg,          \* per thread: the `output` it passes to end()
    endTarget,       \* the id of the object the threads end (0: no call yet)
    endTimeSets,     \* number of assignments to self.end_time so far
    \* ---- AsyncBatchQueue ----
    aFlushAt,        \* self._flush_at
    aMaxQueueSize,   \* self._max_queue_size
    aBatch,          \* self._batch
    aSince,          \* time.time() - self._last_flush, in ticks, saturating
    aSent,           \* the batches passed to Transport.send_batch, in call order
    aFailed,         \* records of the batches whose send returned False or raised
    aAdded,          \* number of add() calls made so far
    aCalls,          \* number of flush(), check_flush() and stop() calls made so far
    aLast            \* the last call: see AsyncCall

bqVars == <<flush_at, max_queue_size, queue, batch, running, sinceFlush,
            pcW, wEvent, wEvents, wElapsed,
            pcM, mOp, mEvents, mSnap, mError, flushCalls, stopCalled, stopCalls, stopReturned,
            lastReturned, addAfterStop, lateAdds, nextRec, addRet, dropped, sent, failed>>

cfgVars == <<flush_at, max_queue_size>>
wVars == <<pcW, wEvent, wEvents, wElapsed>>
mVars == <<pcM, mOp, mEvents, mSnap, mError, flushCalls, stopCalled, stopCalls, stopReturned,
           lastReturned>>
pVars == <<nextRec, addRet, dropped, addAfterStop, lateAdds>>

httpVars == <<hPc, hOp, hMax, hAttempt, hLog, hWaits, hResult, hCalls>>

taskVars == <<tStatus, tHow, spawnSnap, lastSet, lastGet, ctxOps>>
scopeVars == <<scopes, outer, scopeExc, depthSeen>>
ctxVars == <<ctxv, taskVars, scopeVars>>

obsVars == <<cState, objs, emitted, oNow, frames, lastCall, nInfos>>

endVars == <<endPc, endArg, endTarget, endTimeSets>>

asyncVars == <<aFlushAt, aMaxQueueSize, aBatch, aSince, aSent, aFailed, aAdded, aCalls,
               aLast>>

vars == <<bqVars, httpVars, ctxVars, obsVars, endVars, asyncVars>>

\* the variables a BatchQueue step leaves alone
notBQ == <<httpVars, ctxVars, obsVars, endVars, asyncVars>>

\* the variables an HttpTransport step leaves alone
notHttp == <<bqVars, ctxVars, obsVars, endVars, asyncVars>>

\* the variables a context-store step leaves alone
notCtx == <<bqVars, httpVars, obsVars, endVars, asyncVars>>

\* the variables a call on the client or on one of its objects leaves alone
notObs == <<batch, running, sinceFlush, wVars, mVars, pVars, sent, failed,
            httpVars, taskVars, scopeVars, endVars, asyncVars>>

\* the variables a step of a thread inside end() leaves alone
notEnd == <<batch, running, sinceFlush, wVars, mVars, pVars, sent, failed,
            httpVars, ctxVars, cState, cfgVars, frames, lastCall, nInfos, asyncVars>>

\* the variables a call on the AsyncBatchQueue leaves alone
notAsync == <<bqVars, httpVars, ctxVars, obsVars, endVars>>

(* ------------------------------------------------------------------ *)
(* BatchQueue: derived sets                                            *)
(* ------------------------------------------------------------------ *)
\* records for which add() returned True
\* number of add() calls made so far
Added == LET n1 == nextRec["p1"] - 1
             n2 == nextRec["p2"] - 1
         IN n1 + n2

Accepted == {r \in Records : r[2] < nextRec[r[1]] /\ r \notin dropped}

\* records that were passed to Transport.send_batch
SentRecords == UNION {SeqToSet(sent[i]) : i \in 1..Len(sent)}

(* ------------------------------------------------------------------ *)
(* BatchQueue.__init__                                                 *)
(* ------------------------------------------------------------------ *)
\* BatchQueue(transport, flush_at=fa, max_queue_size=mq)
InitQueue(fa, mq) ==
    /\ flush_at = fa
    /\ max_queue_size = mq
    /\ queue = <<>>
    /\ batch = <<>>
    /\ running = TRUE
    /\ sinceFlush = 0
    /\ pcW = "while"
    /\ wEvent = <<>>
    /\ wEvents = <<>>
    /\ wElapsed = 0
    /\ pcM = "idle"
    /\ mOp = "none"
    /\ mEvents = <<>>
    /\ mSnap = {}
    /\ mError = FALSE
    /\ flushCalls = 0
    /\ stopCalled = FALSE
    /\ stopCalls = 0
    /\ stopReturned = FALSE
    /\ lastReturned = "none"
    /\ addAfterStop = FALSE
    /\ lateAdds = {}
    /\ nextRec = [p \in Producers |-> 1]
    /\ addRet = [p \in Producers |-> "none"]
    /\ dropped = {}
    /\ sent = <<>>
    /\ failed = {}

InitBQ == InitQueue(FlushAt, MaxQueueSize)

(* ------------------------------------------------------------------ *)
(* BatchQueue.add                                                      *)
(* ------------------------------------------------------------------ *)
\* a queue that admits one record more than max_queue_size
QueueFullOffByOne(q, maxsize) == maxsize > 0 /\ Len(q) > maxsize

\* queue.Queue(maxsize).put_nowait raises queue.Full
QueueFull(q, maxsize) == maxsize > 0 /\ Len(q) >= maxsize

\* add(): put_nowait, True; on queue.Full, False
Add(p) ==
    /\ Added < MaxAdds
    /\ LET rec == <<p, nextRec[p]>> IN
        IF QueueFull(queue, max_queue_size)
        THEN /\ addRet' = [addRet EXCEPT ![p] = "False"]
             /\ dropped' = dropped \cup {rec}
             /\ queue' = queue
             /\ lateAdds' = lateAdds
        ELSE /\ addRet' = [addRet EXCEPT ![p] = "True"]
             /\ queue' = Append(queue, rec)
             /\ dropped' = dropped
             /\ lateAdds' = IF stopReturned THEN lateAdds \cup {rec} ELSE lateAdds
    /\ nextRec' = [nextRec EXCEPT ![p] = @ + 1]
    /\ addAfterStop' = (addAfterStop \/ stopCalled)
    /\ UNCHANGED <<cfgVars, batch, running, sinceFlush, wVars, mVars, sent, failed>>
    /\ UNCHANGED notBQ

(* ------------------------------------------------------------------ *)
(* the clock                                                           *)
(* ------------------------------------------------------------------ *)
Tick ==
    /\ sinceFlush < FlushInterval
    /\ sinceFlush' = sinceFlush + 1
    /\ UNCHANGED <<cfgVars, queue, batch, running, wVars, mVars, pVars, sent, failed>>
    /\ UNCHANGED notBQ

(* ------------------------------------------------------------------ *)
(* BatchQueue._send_batch                                              *)
(* ------------------------------------------------------------------ *)
\* the records of a batch whose send did not succeed
FailedOf(events, outcome) == IF outcome = "ok" THEN {} ELSE SeqToSet(events)

\* a _send_batch that puts the records of a failed batch back into the queue
SendBatchRequeueFailed(events, outcome) == IF outcome = "ok" THEN <<>> ELSE events

\* the records _send_batch puts back into the queue after the send: it logs and
\* puts back none, whatever the outcome
SendBatchRequeue(events, outcome) == <<>>

\* whether an exception leaves _send_batch: `except Exception` logs it
SendBatchRaises(outcome) == FALSE

(* ------------------------------------------------------------------ *)
(* BatchQueue._flush_loop (the background worker)                      *)
(* ------------------------------------------------------------------ *)
\* a loop that never looks at self._running
W_WhileForever ==
    /\ pcW = "while"
    /\ pcW' = "get"
    /\ UNCHANGED <<cfgVars, queue, batch, running, sinceFlush, wEvent, wEvents,
                   wElapsed, mVars, pVars, sent, failed>>
    /\ UNCHANGED notBQ

\* while self._running
W_While ==
    /\ pcW = "while"
    /\ pcW' = IF running THEN "get" ELSE "exit"
    /\ UNCHANGED <<cfgVars, queue, batch, running, sinceFlush, wEvent, wEvents,
                   wElapsed, mVars, pVars, sent, failed>>
    /\ UNCHANGED notBQ

\* event = self._queue.get(timeout=0.1): an event is there
W_Get ==
    /\ pcW = "get"
    /\ queue # <<>>
    /\ wEvent' = <<Head(queue)>>
    /\ queue' = Tail(queue)
    /\ pcW' = "append"
    /\ UNCHANGED <<cfgVars, batch, running, sinceFlush, wEvents, wElapsed,
                   mVars, pVars, sent, failed>>
    /\ UNCHANGED notBQ

\* self._queue.get(timeout=0.1) raises queue.Empty: pass
W_GetTimeout ==
    /\ pcW = "get"
    /\ queue = <<>>
    /\ pcW' = "check"
    /\ UNCHANGED <<cfgVars, queue, batch, running, sinceFlush, wEvent, wEvents,
                   wElapsed, mVars, pVars, sent, failed>>
    /\ UNCHANGED notBQ

\* with self._batch_lock: self._batch.append(event)
W_Append ==
    /\ pcW = "append"
    /\ batch' = batch \o wEvent
    /\ wEvent' = <<>>
    /\ pcW' = "check"
    /\ UNCHANGED <<cfgVars, queue, running, sinceFlush, wEvents, wElapsed,
                   mVars, pVars, sent, failed>>
    /\ UNCHANGED notBQ

\* a check that sends whatever is pending, without waiting for flush_interval
ShouldFlushAnyPending(b, elapsed) == b # <<>>

\* a check that only looks at the size
ShouldFlushSizeOnly(b, elapsed) == Len(b) >= flush_at

\* a check that only looks at the clock
ShouldFlushTimeOnly(b, elapsed) == b # <<>> /\ elapsed >= FlushInterval

\* should_flush = len(batch) >= flush_at or (batch and now - last_flush >= flush_interval)
ShouldFlush(b, elapsed) ==
    \/ Len(b) >= flush_at
    \/ (b # <<>> /\ elapsed >= FlushInterval)

\* now = time.time(); with self._batch_lock: decide, and take the accumulator
W_Check ==
    /\ pcW = "check"
    /\ IF ShouldFlush(batch, sinceFlush)
       THEN /\ wEvents' = batch
            /\ batch' = <<>>
            /\ wElapsed' = sinceFlush
            /\ sinceFlush' = 0
            /\ pcW' = IF batch # <<>> THEN "send" ELSE "while"
       ELSE /\ pcW' = "while"
            /\ UNCHANGED <<wEvents, wElapsed, batch, sinceFlush>>
    /\ UNCHANGED <<cfgVars, queue, running, wEvent, mVars, pVars, sent, failed>>
    /\ UNCHANGED notBQ

\* self._send_batch(events): Transport.send_batch is called
W_SendBegin ==
    /\ pcW = "send"
    /\ sent' = Append(sent, wEvents)
    /\ pcW' = "sending"
    /\ UNCHANGED <<cfgVars, queue, batch, running, sinceFlush, wEvent, wEvents,
                   wElapsed, mVars, pVars, failed>>
    /\ UNCHANGED notBQ

\* Transport.send_batch returns or raises; an exception that left _send_batch
\* would be logged by the loop's own `except Exception`
W_SendEnd ==
    /\ pcW = "sending"
    /\ \E o \in SendOutcomes :
        /\ failed' = failed \cup FailedOf(wEvents, o)
        /\ queue' = queue \o SendBatchRequeue(wEvents, o)
    /\ wEvents' = <<>>
    /\ wElapsed' = 0
    /\ pcW' = "while"
    /\ UNCHANGED <<cfgVars, batch, running, sinceFlush, wEvent,
                   mVars, pVars, sent>>
    /\ UNCHANGED notBQ

Worker == W_While \/ W_Get \/ W_GetTimeout \/ W_Append \/ W_Check \/ W_SendBegin \/ W_SendEnd

(* ------------------------------------------------------------------ *)
(* BatchQueue.flush and BatchQueue.stop (the controlling thread)       *)
(* ------------------------------------------------------------------ *)
\* a call of flush()
M_CallFlush ==
    /\ pcM = "idle"
    /\ flushCalls < MaxFlushCalls
    /\ flushCalls' = flushCalls + 1
    /\ mOp' = "flush"
    /\ mSnap' = Accepted
    /\ mEvents' = <<>>
    /\ pcM' = "drain"
    /\ UNCHANGED <<cfgVars, queue, batch, running, sinceFlush, wVars, pVars, sent, failed,
                   mError, stopCalled, stopCalls, stopReturned, lastReturned>>
    /\ UNCHANGED notBQ

\* a call of stop(): self._running = False, then self.flush()
M_CallStop ==
    /\ pcM = "idle"
    /\ ~stopCalled
    /\ stopCalled' = TRUE
    /\ stopCalls' = 1
    /\ running' = FALSE
    /\ mOp' = "stop"
    /\ mSnap' = Accepted
    /\ mEvents' = <<>>
    /\ pcM' = "drain"
    /\ UNCHANGED <<cfgVars, queue, batch, sinceFlush, wVars, pVars, sent, failed,
                   mError, flushCalls, stopReturned, lastReturned>>
    /\ UNCHANGED notBQ

\* a further call of stop(), after an earlier one has returned: the same statements
M_CallStopAgain ==
    /\ pcM = "idle"
    /\ stopReturned
    /\ stopCalls < MaxStopCalls
    /\ stopCalls' = stopCalls + 1
    /\ running' = FALSE
    /\ mOp' = "stop"
    /\ mSnap' = Accepted
    /\ mEvents' = <<>>
    /\ pcM' = "drain"
    /\ UNCHANGED <<cfgVars, queue, batch, sinceFlush, wVars, pVars, sent, failed,
                   mError, flushCalls, stopCalled, stopReturned, lastReturned>>
    /\ UNCHANGED notBQ

\* flush(): event = self._queue.get_nowait(); events.append(event)
M_Drain ==
    /\ pcM = "drain"
    /\ queue # <<>>
    /\ mEvents' = Append(mEvents, Head(queue))
    /\ queue' = Tail(queue)
    /\ UNCHANGED <<cfgVars, batch, running, sinceFlush, wVars, pVars, sent, failed,
                   pcM, mOp, mSnap, mError, flushCalls, stopCalled, stopCalls, stopReturned,
                   lastReturned>>
    /\ UNCHANGED notBQ

\* flush(): get_nowait raises queue.Empty: break
M_DrainEmpty ==
    /\ pcM = "drain"
    /\ queue = <<>>
    /\ pcM' = "take"
    /\ UNCHANGED <<cfgVars, queue, batch, running, sinceFlush, wVars, pVars, sent, failed,
                   mOp, mEvents, mSnap, mError, flushCalls, stopCalled, stopCalls, stopReturned,
                   lastReturned>>
    /\ UNCHANGED notBQ

\* flush(): the list it sends, from the drained events and the accumulator
FlushEvents(drained, acc) == drained \o acc

\* a flush() that leaves the accumulator as it was
BatchAfterFlushKept(acc) == acc

\* flush(): self._batch = []
BatchAfterFlush(acc) == <<>>

\* flush(): with self._batch_lock: events.extend(self._batch); self._batch = []
M_Take ==
    /\ pcM = "take"
    /\ mEvents' = FlushEvents(mEvents, batch)
    /\ batch' = BatchAfterFlush(batch)
    /\ pcM' = IF mEvents' # <<>> THEN "send" ELSE "flushed"
    /\ UNCHANGED <<cfgVars, queue, running, sinceFlush, wVars, pVars, sent, failed,
                   mOp, mSnap, mError, flushCalls, stopCalled, stopCalls, stopReturned,
                   lastReturned>>
    /\ UNCHANGED notBQ

\* flush(): self._send_batch(events): Transport.send_batch is called
M_SendBegin ==
    /\ pcM = "send"
    /\ sent' = Append(sent, mEvents)
    /\ pcM' = "sending"
    /\ UNCHANGED <<cfgVars, queue, batch, running, sinceFlush, wVars, pVars, failed,
                   mOp, mEvents, mSnap, mError, flushCalls, stopCalled, stopCalls, stopReturned,
                   lastReturned>>
    /\ UNCHANGED notBQ

\* Transport.send_batch returns or raises
M_SendEnd ==
    /\ pcM = "sending"
    /\ \E o \in SendOutcomes :
        /\ failed' = failed \cup FailedOf(mEvents, o)
        /\ queue' = queue \o SendBatchRequeue(mEvents, o)
        /\ mError' = (mError \/ SendBatchRaises(o))
    /\ mEvents' = <<>>
    /\ pcM' = "flushed"
    /\ UNCHANGED <<cfgVars, batch, running, sinceFlush, wVars, pVars, sent,
                   mOp, mSnap, flushCalls, stopCalled, stopCalls, stopReturned, lastReturned>>
    /\ UNCHANGED notBQ

\* flush() returns: to its caller, or into stop()
M_FlushReturn ==
    /\ pcM = "flushed"
    /\ IF mOp = "flush"
       THEN /\ pcM' = "idle"
            /\ mOp' = "none"
            /\ lastReturned' = "flush"
       ELSE /\ pcM' = "join"
            /\ UNCHANGED <<mOp, lastReturned>>
    /\ UNCHANGED <<cfgVars, queue, batch, running, sinceFlush, wVars, pVars, sent, failed,
                   mEvents, mSnap, mError, flushCalls, stopCalled, stopCalls, stopReturned>>
    /\ UNCHANGED notBQ

\* a stop() that returns wherever the worker is
JoinTimesOutAnywhere == TRUE

\* the worker can outlast join(timeout=5.0) only inside a send
JoinTimesOut == pcW = "sending"

\* stop(): if self._flush_thread.is_alive(): self._flush_thread.join(timeout=5.0)
M_Join ==
    /\ pcM = "join"
    /\ (pcW = "exit" \/ JoinTimesOut)
    /\ pcM' = "idle"
    /\ mOp' = "none"
    /\ stopReturned' = TRUE
    /\ lastReturned' = "stop"
    /\ UNCHANGED <<cfgVars, queue, batch, running, sinceFlush, wVars, pVars, sent, failed,
                   mEvents, mSnap, mError, flushCalls, stopCalled, stopCalls>>
    /\ UNCHANGED notBQ



(* ------------------------------------------------------------------ *)
(* HttpTransport: the outcomes of one HTTP request                     *)
(* ------------------------------------------------------------------ *)
\* default of max_retries
MaxRetries == 3

\* seconds waited on a 429 without a Retry-After header
DefaultRetryAfter == 5

\* status codes the server may answer with
StatusCodes == {200, 201, 204, 207, 302, 400, 404, 429, 500, 503}

\* values of the Retry-After header of a 429 ("absent": no such header)
RetryAfterValues == {"absent", "2", "0", "-1", "Wed, 21 Oct 2026 07:28:00 GMT"}

\* int(s) raises ValueError unless s is an integer literal
IsIntLiteral(s) == s \in {"2", "0", "-1"}

\* int(s) for an integer literal
IntOf(s) == CASE s = "2" -> 2 [] s = "0" -> 0 [] s = "-1" -> 0 - 1

\* a response: its status, its Retry-After header, and whether its body parses as JSON
StatusResponses ==
    {[kind |-> "status", code |-> c, retryAfter |-> "absent", body |-> b] :
        c \in StatusCodes \ {429}, b \in {"json", "garbage"}}
    \cup
    {[kind |-> "status", code |-> 429, retryAfter |-> h, body |-> "json"] :
        h \in RetryAfterValues}

\* the HTTP client raises instead of answering: httpx.TimeoutException, another
\* httpx.RequestError, or any other Exception
ClientErrors ==
    {[kind |-> k, code |-> 0, retryAfter |-> "absent", body |-> "garbage"] :
        k \in {"TimeoutException", "RequestError", "Exception"}}

Outcomes == StatusResponses \cup ClientErrors

Ops == {"send_batch", "get", "post"}

\* 2 ** n
RECURSIVE Pow2(_)
Pow2(n) == IF n = 0 THEN 1 ELSE 2 * Pow2(n - 1)

\* a backoff that grows by half a second per attempt
BackoffLinear(attempt) == attempt + 1

\* wait_time = (2**attempt) * 0.5, in half seconds
Backoff(attempt) == Pow2(attempt)

\* what a call returns when it gives up: send_batch False, get and post None
Failure(op) == IF op = "send_batch" THEN "False" ELSE "None"

\* the status codes an operation returns success on
SuccessCodes(op) ==
    CASE op = "send_batch" -> {200, 201, 207}
      [] op = "get" -> {200}
      [] op = "post" -> {200, 201}

\* the three ways the body of the `try` can end
Return(v) == [act |-> "return", value |-> v, wait |-> 0, exc |-> "none"]
Continue(w) == [act |-> "continue", value |-> "none", wait |-> w, exc |-> "none"]
Raise(e) == [act |-> "raise", value |-> "none", wait |-> 0, exc |-> e]

\* a success status: send_batch returns True (a 207 body that does not parse is
\* swallowed by the inner try); get and post return response.json(), which raises
\* on a body that is not JSON
OnSuccess(op, resp) ==
    IF op = "send_batch" THEN Return("True")
    ELSE IF resp.body = "json" THEN Return("data")
    ELSE Raise("ValueError")

\* status 429: retry_after = int(headers.get("Retry-After", 5)); time.sleep(retry_after)
\* int() raises ValueError on a malformed header, time.sleep on a negative number
OnRateLimited(resp) ==
    IF resp.retryAfter = "absent" THEN Continue(2 * DefaultRetryAfter)
    ELSE IF ~IsIntLiteral(resp.retryAfter) THEN Raise("ValueError")
    ELSE IF IntOf(resp.retryAfter) < 0 THEN Raise("ValueError")
    ELSE Continue(2 * IntOf(resp.retryAfter))

\* the body of the `try` of one loop iteration, for the outcome of its request
TryBody(op, resp, attempt) ==
    IF resp.kind # "status" THEN Raise(resp.kind)
    ELSE IF resp.code \in SuccessCodes(op) THEN OnSuccess(op, resp)
    ELSE IF op = "get" /\ resp.code = 404 THEN Return("None")
    ELSE IF resp.code = 429 THEN OnRateLimited(resp)
    ELSE IF resp.code >= 500 THEN Continue(Backoff(attempt))
    ELSE Return(Failure(op))

\* handlers that let an exception other than the two httpx ones through
ExceptUnguarded(op, exc, attempt) ==
    CASE exc = "TimeoutException" -> Continue(Backoff(attempt))
      [] exc = "RequestError" -> Continue(Backoff(attempt))
      [] OTHER -> Raise(exc)

\* except httpx.TimeoutException / httpx.RequestError: sleep and go on;
\* except Exception: return False (None)
Except(op, exc, attempt) ==
    CASE exc = "TimeoutException" -> Continue(Backoff(attempt))
      [] exc = "RequestError" -> Continue(Backoff(attempt))
      [] OTHER -> Return(Failure(op))

\* one loop iteration
Iteration(op, resp, attempt) ==
    LET b == TryBody(op, resp, attempt)
    IN IF b.act = "raise" THEN Except(op, b.exc, attempt) ELSE b

\* a loop that runs once more than max_retries
MoreAttemptsOffByOne(attempt, max) == attempt <= max

\* for attempt in range(self.max_retries)
MoreAttempts(attempt, max) == attempt < max

InitHttp ==
    /\ hPc = "idle"
    /\ hOp = "none"
    /\ hMax = 0
    /\ hAttempt = 0
    /\ hLog = <<>>
    /\ hWaits = <<>>
    /\ hResult = "pending"
    /\ hCalls = 0

\* a call of send_batch(events), get(path, params) or post(path, data);
\* send_batch([]) returns True at once
H_Call ==
    /\ hPc = "idle"
    /\ \E op \in Ops, m \in 0..MaxRetries, empty \in BOOLEAN :
        /\ empty => op = "send_batch"
        /\ hOp' = op
        /\ hMax' = m
        /\ IF empty
           THEN hPc' = "done" /\ hResult' = "True"
           ELSE hPc' = "loop" /\ hResult' = "pending"
    /\ hAttempt' = 0
    /\ hCalls' = hCalls + 1
    /\ UNCHANGED <<hLog, hWaits>>
    /\ UNCHANGED notHttp

\* one iteration of the retry loop: the request, and what the code does with
\* its outcome
H_Request ==
    /\ hPc = "loop"
    /\ MoreAttempts(hAttempt, hMax)
    /\ \E resp \in Outcomes :
        LET it == Iteration(hOp, resp, hAttempt) IN
        /\ hLog' = Append(hLog, resp)
        /\ CASE it.act = "return" ->
                  /\ hResult' = it.value
                  /\ hPc' = "done"
                  /\ UNCHANGED <<hAttempt, hWaits>>
             [] it.act = "continue" ->
                  /\ hWaits' = Append(hWaits, it.wait)
                  /\ hAttempt' = hAttempt + 1
                  /\ UNCHANGED <<hPc, hResult>>
             [] it.act = "raise" ->
                  /\ hResult' = "raised"
                  /\ hPc' = "done"
                  /\ UNCHANGED <<hAttempt, hWaits>>
    /\ UNCHANGED <<hOp, hMax, hCalls>>
    /\ UNCHANGED notHttp

\* the loop is exhausted: return False (None)
H_Exhausted ==
    /\ hPc = "loop"
    /\ ~MoreAttempts(hAttempt, hMax)
    /\ hResult' = Failure(hOp)
    /\ hPc' = "done"
    /\ UNCHANGED <<hOp, hMax, hAttempt, hLog, hWaits, hCalls>>
    /\ UNCHANGED notHttp

\* the call is over and its caller goes on to call the transport again: hLog and
\* hWaits are the requests and sleeps of one call
H_Return ==
    /\ hPc = "done"
    /\ hCalls < MaxHttpCalls
    /\ hPc' = "idle"
    /\ hLog' = <<>>
    /\ hWaits' = <<>>
    /\ hResult' = "pending"
    /\ UNCHANGED <<hOp, hMax, hAttempt, hCalls>>
    /\ UNCHANGED notHttp

NextHttp == H_Call \/ H_Request \/ H_Exhausted \/ H_Return

(* ------------------------------------------------------------------ *)
(* Context store: _client_var, _trace_var, _observation_var            *)
(* ------------------------------------------------------------------ *)
\* the main thread, and two units of work started later
Tasks == {"t1", "t2", "t3"}

\* the three ContextVars
Slots == {"client", "trace", "observation"}

\* what a ContextVar can hold: 0 is None, 1 and 2 are two objects
CtxValues == {0, 1, 2}

\* lastSet of a ContextVar the task never stored to
Unset == 0 - 1

\* a context in which no ContextVar was set: every get() gives default=None
EmptyCtx == [s \in Slots |-> 0]

\* the two ways a unit of work is started: threading.Thread(...).start() and
\* asyncio.create_task(...)
SpawnKinds == {"thread", "task"}

\* the context a new unit of work starts in: an asyncio task runs in a copy of the
\* context it was created in, a new thread runs in a new, empty context
StartContext(how, parentCtx) == IF how = "task" THEN parentCtx ELSE EmptyCtx

\* one slot for the whole process: a set() of one task lands in every task
SetTargetsGlobal(t) == Tasks

\* ContextVar.set changes the context of the calling task only
SetTargets(t) == {t}

InitCtx ==
    /\ tStatus = [t \in Tasks |-> IF t = "t1" THEN "running" ELSE "unborn"]
    /\ tHow = [t \in Tasks |-> IF t = "t1" THEN "main" ELSE "none"]
    /\ ctxv = [t \in Tasks |-> EmptyCtx]
    /\ spawnSnap = [t \in Tasks |-> EmptyCtx]
    /\ lastSet = [t \in Tasks |-> [s \in Slots |-> Unset]]
    /\ lastGet = [task |-> "none", slot |-> "none", value |-> 0]
    /\ ctxOps = 0
    /\ scopes = <<>>
    /\ outer = [s \in Slots |-> Unset]
    /\ scopeExc = FALSE
    /\ depthSeen = 0

\* set_client(v), set_current_trace(v) or set_current_observation(v) in task t
CtxSet(t, s, v) ==
    /\ tStatus[t] = "running"
    /\ ctxOps < MaxCtxOps
    /\ ctxv' = [u \in Tasks |->
                  IF u \in SetTargets(t) THEN [ctxv[u] EXCEPT ![s] = v] ELSE ctxv[u]]
    /\ lastSet' = [lastSet EXCEPT ![t][s] = v]
    /\ lastGet' = IF lastGet.task = t /\ lastGet.slot = s
                  THEN [task |-> "none", slot |-> "none", value |-> 0]
                  ELSE lastGet
    /\ ctxOps' = ctxOps + 1
    /\ UNCHANGED <<tStatus, tHow, spawnSnap, scopeVars>>
    /\ UNCHANGED notCtx

\* get_client(), get_current_trace() or get_current_observation() in task t
CtxGet(t, s) ==
    /\ tStatus[t] = "running"
    /\ ctxOps < MaxCtxOps
    /\ lastGet' = [task |-> t, slot |-> s, value |-> ctxv[t][s]]
    /\ ctxOps' = ctxOps + 1
    /\ UNCHANGED <<ctxv, tStatus, tHow, spawnSnap, lastSet, scopeVars>>
    /\ UNCHANGED notCtx

\* task p starts the unit of work c as a thread or as an asyncio task
Spawn(p, c, how) ==
    /\ tStatus[p] = "running"
    /\ tStatus[c] = "unborn"
    /\ ctxOps < MaxCtxOps
    /\ tStatus' = [tStatus EXCEPT ![c] = "running"]
    /\ tHow' = [tHow EXCEPT ![c] = how]
    /\ ctxv' = [ctxv EXCEPT ![c] = StartContext(how, ctxv[p])]
    /\ spawnSnap' = [spawnSnap EXCEPT ![c] = ctxv[p]]
    /\ ctxOps' = ctxOps + 1
    /\ UNCHANGED <<lastSet, lastGet, scopeVars>>
    /\ UNCHANGED notCtx

NextCtx ==
    \/ \E t \in Tasks, s \in Slots, v \in CtxValues : CtxSet(t, s, v)
    \/ \E t \in Tasks, s \in Slots : CtxGet(t, s)
    \/ \E p \in Tasks, c \in Tasks, how \in SpawnKinds : Spawn(p, c, how)

(* ------------------------------------------------------------------ *)
(* Scopes: TraceContext, ObservationContext, run_in_trace_context      *)
(* ------------------------------------------------------------------ *)
ScopeKinds == {"TraceContext", "ObservationContext", "run_in_trace_context"}

\* the ContextVar a scope sets
ScopeSlot(kind) == IF kind = "ObservationContext" THEN "observation" ELSE "trace"

\* the open scopes on ContextVar s, innermost last
FramesOn(s) == SelectSeq(scopes, LAMBDA f : f.slot = s)

\* a scope exit that stores None instead of resetting the token
ScopeRestoreNone(frame) == 0

\* ContextVar.reset(token): the value the ContextVar had before the set() that
\* made the token
ScopeRestore(frame) == frame.token

\* __enter__ of a new TraceContext(v) / ObservationContext(v), or the set() at the
\* start of run_in_trace_context(v, func): self._token = var.set(v)
ScopeEnter(kind, v) ==
    LET s == ScopeSlot(kind) IN
    /\ Len(scopes) < MaxDepth
    /\ scopes' = Append(scopes, [kind |-> kind, slot |-> s, value |-> v,
                                 token |-> ctxv["t1"][s], touched |-> FALSE])
    /\ ctxv' = [ctxv EXCEPT !["t1"][s] = v]
    /\ outer' = IF FramesOn(s) = <<>> THEN [outer EXCEPT ![s] = ctxv["t1"][s]] ELSE outer
    /\ scopeExc' = FALSE
    /\ depthSeen' = IF scopes = <<>> THEN 1
                    ELSE IF Len(scopes) + 1 > depthSeen THEN Len(scopes) + 1 ELSE depthSeen
    /\ UNCHANGED taskVars
    /\ UNCHANGED notCtx

\* __exit__ of the innermost scope, or the finally of run_in_trace_context; the
\* body ended normally or by an exception, which __exit__ does not suppress
ScopeExit(exc) ==
    /\ scopes # <<>>
    /\ LET f == scopes[Len(scopes)] IN
        /\ ctxv' = [ctxv EXCEPT !["t1"][f.slot] = ScopeRestore(f)]
        /\ scopes' = SubSeq(scopes, 1, Len(scopes) - 1)
    /\ scopeExc' = exc
    /\ UNCHANGED <<outer, depthSeen, taskVars>>
    /\ UNCHANGED notCtx

\* a direct set_current_trace(v) / set_current_observation(v) of the main task,
\* inside or outside scopes
ScopeSet(s, v) ==
    /\ s \in {"trace", "observation"}
    /\ ctxv["t1"][s] # v
    /\ ctxv' = [ctxv EXCEPT !["t1"][s] = v]
    /\ scopes' = [i \in 1..Len(scopes) |->
                    IF scopes[i].slot = s /\ \A j \in (i+1)..Len(scopes) : scopes[j].slot # s
                    THEN [scopes[i] EXCEPT !.touched = TRUE]
                    ELSE scopes[i]]
    /\ outer' = IF FramesOn(s) = <<>> THEN [outer EXCEPT ![s] = Unset] ELSE outer
    /\ scopeExc' = FALSE
    /\ UNCHANGED depthSeen
    /\ UNCHANGED taskVars
    /\ UNCHANGED notCtx

NextScope ==
    \/ \E kind \in ScopeKinds, v \in CtxValues : ScopeEnter(kind, v)
    \/ \E exc \in BOOLEAN : ScopeExit(exc)
    \/ \E s \in Slots, v \in CtxValues : ScopeSet(s, v)

(* ------------------------------------------------------------------ *)
(* Observation model: AgentTrace, Trace, Span, Generation              *)
(* (the calls of the main thread, task "t1")                           *)
(* ------------------------------------------------------------------ *)
\* AgentTrace.__init__: flush_at
DefaultFlushAt == 20

\* BatchQueue.__init__: max_queue_size
DefaultMaxQueueSize == 10000

\* uuid4 ids of traces, spans and generations, in the order they are made
ObjIds == 1..MaxObjs

\* a field that is None
None == "None"

\* a key the body of a record does not have
Absent == "absent"

\* a metadata dict: the value of each key (Absent: the dict has no such key)
MetaKeys == {"k1", "k2"}
EmptyMeta == [k \in MetaKeys |-> Absent]

\* the dicts a caller passes as metadata; passing EmptyMeta is passing {} or
\* nothing, which come to the same (`metadata or {}`, `if metadata is not None`)
MetaArgs == {EmptyMeta,
             [k \in MetaKeys |-> IF k = "k1" THEN "v1" ELSE Absent],
             [k \in MetaKeys |-> IF k = "k1" THEN "v2" ELSE "v1"]}

\* dict.update: the keys of new are set, the other keys are kept
Merge(old, new) == [k \in MetaKeys |-> IF new[k] # Absent THEN new[k] ELSE old[k]]

\* an id that has not been given to an object yet. self.metadata is one dict for
\* the whole life of the object: `metadata` is its content; `shared` tells that it
\* is the dict the caller passed to the constructor
NoObj == [kind |-> "none", trace |-> 0, parent |-> 0, name |-> None, ended |-> FALSE,
          endTime |-> 0, output |-> None, usage |-> None, model |-> None,
          metadata |-> EmptyMeta, shared |-> FALSE]

\* values a caller passes for output, for usage and model, and for name
OutArgs == {None, "out"}
UsageModelArgs == {<<None, None>>, <<"u", "m">>}
NameArgs == {None, "renamed"}

\* how user code inside a wrapper ends: it returns, raises an Exception, or
\* raises a BaseException that is no Exception (KeyboardInterrupt, CancelledError)
Outcomes2 == {"return", "Exception", "BaseException"}

\* the tracking calls that return an info object: CheckpointClient.create,
\* FileOperationClient.track, TerminalClient.track, GitClient.link
TrackKinds == {"checkpoint", "file-operation", "terminal-command", "git-link"}

\* the shapes of the value of a score: float, bool, str
ValueShapes == {"number", "boolean", "string"}

\* the data_type argument of score(): left out, or one of the three types
DataTypeArgs == {"default", "NUMERIC", "BOOLEAN", "CATEGORICAL"}

\* data_type: str = "NUMERIC"
DataTypeOf(dt) == IF dt = "default" THEN "NUMERIC" ELSE dt

CurTrace == ctxv["t1"]["trace"]
CurObs == ctxv["t1"]["observation"]

FreshIds == {i \in ObjIds : objs[i].kind = "none"}
NextId == CHOOSE i \in FreshIds : \A j \in FreshIds : i <= j
SecondId == CHOOSE i \in FreshIds \ {NextId} : \A j \in FreshIds \ {NextId} : i <= j

\* the ids of the spans and generations made so far
ObservationIds == {i \in ObjIds : objs[i].kind \in {"span", "generation"}}

\* `if x is not None: self.x = x`
Arg(v, old) == IF v = None THEN old ELSE v

\* a client that adds records also when it is disabled
EmitsAlways(state) == TRUE

\* `if self._client.enabled:` before every _batch_queue.add
EmitsWhen(state) == state = "enabled"

\* Queue.put_nowait of each record in turn; a record that finds the queue full is dropped
RECURSIVE PutAll(_, _)
PutAll(q, recs) ==
    IF recs = <<>> THEN q
    ELSE PutAll(IF QueueFull(q, max_queue_size) THEN q ELSE Append(q, Head(recs)), Tail(recs))

\* the body of a *-create record. "metadata": self.metadata puts the dict of the
\* object itself into the body, not a copy: `meta` is the id of the object whose
\* dict the body holds (0: the body has no metadata)
CreateRecord(id, o) ==
    [type |-> CASE o.kind = "trace" -> "trace-create"
                [] o.kind = "span" -> "span-create"
                [] o.kind = "generation" -> "generation-create",
     id |-> id, trace |-> o.trace, parent |-> o.parent, name |-> o.name,
     output |-> Absent, usage |-> Absent,
     model |-> IF o.kind = "generation" THEN o.model ELSE Absent,
     endTime |-> Unset, by |-> "create", meta |-> id]

\* the body of a *-update record; `by` tells whether update() or end() made it
UpdateRecord(id, o, by) ==
    CASE o.kind = "trace" ->
           [type |-> "trace-update", id |-> id, trace |-> Unset, parent |-> Unset,
            name |-> o.name, output |-> o.output, usage |-> Absent, model |-> Absent,
            endTime |-> Unset, by |-> by, meta |-> id]
      [] o.kind = "span" ->
           [type |-> "span-update", id |-> id, trace |-> Unset, parent |-> Unset,
            name |-> Absent, output |-> o.output, usage |-> Absent, model |-> Absent,
            endTime |-> o.endTime, by |-> by, meta |-> 0]
      [] o.kind = "generation" ->
           [type |-> "generation-update", id |-> id, trace |-> Unset, parent |-> Unset,
            name |-> Absent, output |-> o.output, usage |-> o.usage, model |-> o.model,
            endTime |-> o.endTime, by |-> by, meta |-> 0]

\* the body of the record of a tracking call
TrackRecord(kind, id, t) ==
    [type |-> CASE kind = "checkpoint" -> "checkpoint-create"
                [] kind = "file-operation" -> "file-operation-create"
                [] kind = "terminal-command" -> "terminal-command-create"
                [] kind = "git-link" -> "git-link-create",
     id |-> id, trace |-> t, parent |-> Unset, name |-> Absent, output |-> Absent,
     usage |-> Absent, model |-> Absent, endTime |-> Unset, by |-> "create", meta |-> 0]

\* the body of a score-create record
ScoreRecord(id, t, o, shape, dt) ==
    [type |-> "score-create", id |-> id, trace |-> t, parent |-> Unset,
     observation |-> o, name |-> "name", output |-> Absent, usage |-> Absent,
     model |-> Absent, endTime |-> Unset, by |-> "create", meta |-> 0,
     value |-> shape, dataType |-> DataTypeOf(dt)]

\* the metadata a reader of record r finds in its body when the objects are os
BodyMeta(r, os) == IF r.meta = 0 THEN EmptyMeta ELSE os[r.meta].metadata

\* an end() that never finds the object ended
AlreadyEndedNever(o) == FALSE

\* `if self._ended: return`
AlreadyEnded(o) == o.ended

\* the object after the assignments of end()
EndFields(o, output, usage, model, now) ==
    [o EXCEPT !.ended = TRUE, !.endTime = now, !.output = Arg(output, @),
              !.usage = Arg(usage, @), !.model = Arg(model, @)]

\* Trace.end / Span.end / Generation.end of object id: the objects afterwards
ObjsAfterEnd(id, output, usage, model) ==
    IF AlreadyEnded(objs[id]) THEN objs
    ELSE [objs EXCEPT ![id] = EndFields(@, output, usage, model, oNow + 1)]

\* ... the records it passes to _batch_queue.add
RecsOfEnd(id, output, usage, model) ==
    IF AlreadyEnded(objs[id]) THEN <<>>
    ELSE <<UpdateRecord(id, EndFields(objs[id], output, usage, model, oNow + 1), "end")>>

\* ... and the current trace: Trace.end calls set_current_trace(None)
TraceSlotAfterEnd(id) ==
    IF objs[id].kind = "trace" /\ ~AlreadyEnded(objs[id]) THEN 0 ELSE CurTrace

\* a wrapper that swallows the exception of the user code
PropagatesSwallowed(outcome) == "return"

\* what the caller of a wrapper gets: the result of the user code, or its exception
\* (`raise` in the except clause; a BaseException passes the except clause)
Propagates(outcome) == outcome

\* what a call did: the operation, the object it made or acted on, the time of the
\* call, how it ended for its caller, and whether the object was ended before; for
\* the end of a wrapper also how the user code ended and how often it was run
Call(op, obj, outcome, wasEnded) ==
    [op |-> op, obj |-> obj, at |-> oNow + 1, outcome |-> outcome, wasEnded |-> wasEnded,
     user |-> "none", runs |-> 0]

WrapperExit(op, f, user) ==
    [op |-> op, obj |-> f.obj, at |-> oNow + 1, outcome |-> Propagates(user),
     wasEnded |-> IF f.obj = 0 THEN FALSE ELSE objs[f.obj].ended,
     user |-> user, runs |-> f.runs]

InitObs ==
    /\ cState = "none"
    /\ objs = [i \in ObjIds |-> NoObj]
    /\ emitted = <<>>
    /\ oNow = 0
    /\ frames = <<>>
    /\ lastCall = [op |-> "none", obj |-> 0, at |-> 0, outcome |-> "return",
                   wasEnded |-> FALSE, user |-> "none", runs |-> 0]
    /\ nInfos = 0

\* the state after one call of the main thread
Effect(newObjs, recs, newTrace, newObs, newFrames, call, newInfos) ==
    /\ objs' = newObjs
    /\ emitted' = IF EmitsWhen(cState) THEN emitted \o recs ELSE emitted
    /\ queue' = IF EmitsWhen(cState) THEN PutAll(queue, recs) ELSE queue
    /\ ctxv' = [ctxv EXCEPT !["t1"]["trace"] = newTrace, !["t1"]["observation"] = newObs]
    /\ frames' = newFrames
    /\ lastCall' = call
    /\ nInfos' = newInfos
    /\ oNow' = oNow + 1
    /\ UNCHANGED <<cState, cfgVars>>
    /\ UNCHANGED notObs

\* the main thread is not inside flush()/stop()
CanCall == pcM = "idle"

\* AgentTrace(api_key, enabled=en): builds the BatchQueue with the default
\* flush_at and max_queue_size and calls set_client(self)
NewClient(en) ==
    /\ cState = "none"
    /\ pcM = "idle"
    /\ queue = <<>> /\ batch = <<>> /\ wEvent = <<>>
    /\ cState' = IF en THEN "enabled" ELSE "disabled"
    /\ ctxv' = [ctxv EXCEPT !["t1"]["client"] = 1]
    /\ flush_at' = DefaultFlushAt
    /\ max_queue_size' = DefaultMaxQueueSize
    /\ UNCHANGED <<objs, emitted, queue, oNow, frames, lastCall, nInfos>>
    /\ UNCHANGED notObs

\* client.trace(name, metadata=md): Trace.__init__, _send_create,
\* set_current_trace(trace); `self.metadata = metadata or {}` keeps the caller's
\* dict unless it is empty
ClientTraceMeta(md) ==
    /\ CanCall /\ cState # "none"
    /\ FreshIds # {}
    /\ LET id == NextId
           o == [NoObj EXCEPT !.kind = "trace", !.name = "name", !.metadata = md,
                              !.shared = (md # EmptyMeta)]
       IN Effect([objs EXCEPT ![id] = o], <<CreateRecord(id, o)>>, id, CurObs, frames,
                 Call("trace", id, "return", FALSE), nInfos)

\* client.trace(name)
ClientTrace == ClientTraceMeta(EmptyMeta)

\* the caller changes the dict it had passed as metadata to client.trace: d.update(md)
CallerMutates(t, md) ==
    /\ CanCall
    /\ objs[t].kind = "trace" /\ objs[t].shared
    /\ Effect([objs EXCEPT ![t].metadata = Merge(@, md)], <<>>, CurTrace, CurObs, frames,
              Call("caller-mutates", t, "return", objs[t].ended), nInfos)

\* the parent_observation_id of a new observation: the argument, as given
ParentOf(parentArg) == parentArg

\* trace.span(name, parent_observation_id=parentArg)
TraceSpan(t, parentArg) ==
    /\ CanCall /\ cState # "none"
    /\ objs[t].kind = "trace"
    /\ FreshIds # {}
    /\ LET id == NextId
           o == [NoObj EXCEPT !.kind = "span", !.name = "name", !.trace = t,
                              !.parent = ParentOf(parentArg)]
       IN Effect([objs EXCEPT ![id] = o], <<CreateRecord(id, o)>>, CurTrace, CurObs, frames,
                 Call("span", id, "return", FALSE), nInfos)

\* trace.generation(name, parent_observation_id=parentArg, model=model)
TraceGeneration(t, parentArg, model) ==
    /\ CanCall /\ cState # "none"
    /\ objs[t].kind = "trace"
    /\ FreshIds # {}
    /\ LET id == NextId
           o == [NoObj EXCEPT !.kind = "generation", !.name = "name", !.trace = t,
                              !.parent = ParentOf(parentArg), !.model = model]
       IN Effect([objs EXCEPT ![id] = o], <<CreateRecord(id, o)>>, CurTrace, CurObs, frames,
                 Call("generation", id, "return", FALSE), nInfos)

\* trace.update(name=name, output=output, metadata=md): no look at self._ended;
\* self.metadata.update(metadata) changes the dict in place
TraceUpdate(t, name, output, md) ==
    /\ CanCall /\ cState # "none"
    /\ objs[t].kind = "trace"
    /\ LET o == [objs[t] EXCEPT !.name = Arg(name, @), !.output = Arg(output, @),
                                !.metadata = Merge(@, md)]
       IN Effect([objs EXCEPT ![t] = o], <<UpdateRecord(t, o, "update")>>, CurTrace, CurObs,
                 frames, Call("update", t, "return", objs[t].ended), nInfos)

\* trace.end(output): through self.update(output=self.output), then
\* set_current_trace(None)
TraceEnd(t, output) ==
    /\ CanCall /\ cState # "none"
    /\ objs[t].kind = "trace"
    /\ Effect(ObjsAfterEnd(t, output, None, None), RecsOfEnd(t, output, None, None),
              TraceSlotAfterEnd(t), CurObs, frames,
              Call("end", t, "return", objs[t].ended), nInfos)

\* span.end(output)
SpanEnd(o, output) ==
    /\ CanCall /\ cState # "none"
    /\ objs[o].kind = "span"
    /\ Effect(ObjsAfterEnd(o, output, None, None), RecsOfEnd(o, output, None, None),
              CurTrace, CurObs, frames, Call("end", o, "return", objs[o].ended), nInfos)

\* generation.end(output, usage, model)
GenerationEnd(o, output, um) ==
    /\ CanCall /\ cState # "none"
    /\ objs[o].kind = "generation"
    /\ Effect(ObjsAfterEnd(o, output, um[1], um[2]), RecsOfEnd(o, output, um[1], um[2]),
              CurTrace, CurObs, frames, Call("end", o, "return", objs[o].ended), nInfos)

\* client.score(trace_id, name, value, observation_id, data_type) and
\* trace.score(name, value, data_type), which hands its arguments on: on an
\* enabled client a new uuid4 and one record; nothing is returned
Score(t, o, shape, dt) ==
    /\ CanCall /\ cState # "none"
    /\ objs[t].kind = "trace"
    /\ o # 0 => objs[o].kind \in {"span", "generation"} /\ objs[o].trace = t
    /\ Effect(objs, <<ScoreRecord(nInfos + 1, t, o, shape, dt)>>, CurTrace, CurObs, frames,
              Call("score", t, "return", objs[t].ended),
              IF EmitsWhen(cState) THEN nInfos + 1 ELSE nInfos)

\* trace.checkpoint(...), trace.file_op(...), trace.terminal_cmd(...),
\* trace.git_link(...): a new uuid4, one record, and an info object with that id
Track(kind, t) ==
    /\ CanCall /\ cState # "none"
    /\ objs[t].kind = "trace"
    /\ Effect(objs, <<TrackRecord(kind, nInfos + 1, t)>>, CurTrace, CurObs, frames,
              Call(kind, nInfos + 1, "return", FALSE), nInfos + 1)

(* ------------------------------------------------------------------ *)
(* Wrappers: @observe and generation() / ageneration()                 *)
(* ------------------------------------------------------------------ *)
\* an open wrapper ("observe": a call of an @observe function; "generation": a
\* generation() / ageneration() block; "started": a context that start_generation()
\* returned): the trace or observation it made (0: none, the wrapper only runs the
\* user code), GenerationContext._prev_observation and ._ended, the number of
\* times the wrapper has started the user code, and the current trace at the time
\* the wrapper was entered
Frame(wrap, obj, prev) ==
    [wrap |-> wrap, obj |-> obj, prev |-> prev, ctxEnded |-> FALSE, runs |-> 1,
     exitCode |-> 0, success |-> TRUE, entryTrace |-> CurTrace]

\* the innermost open `with` block or wrapped call (0: none); a handle made by
\* start_generation() is no block
Top(s) == IF \A i \in 1..Len(s) : s[i].wrap = "started" THEN 0
          ELSE CHOOSE i \in 1..Len(s) :
                  /\ s[i].wrap # "started"
                  /\ \A j \in (i + 1)..Len(s) : s[j].wrap = "started"

\* the open wrappers after the innermost block or wrapped call is left
Pop(s) == SubSeq(s, 1, Top(s) - 1) \o SubSeq(s, Top(s) + 1, Len(s))

\* a scope that leaves the current observation as it is when it ends
RestoredObservationKept(f) == CurObs

\* set_current_observation(self._prev_observation)
RestoredObservation(f) == f.prev

\* _trace_sync / _trace_async up to the call of the wrapped function
ObserveEnter(asType) ==
    /\ CanCall
    /\ Len(frames) < MaxDepth
    /\ IF cState # "enabled"
       THEN Effect(objs, <<>>, CurTrace, CurObs, Append(frames, Frame("observe", 0, 0)),
                   Call("observe-enter", 0, "return", FALSE), nInfos)
       ELSE /\ FreshIds # {}
            /\ LET id == NextId
                   o == IF CurTrace = 0
                        THEN [NoObj EXCEPT !.kind = "trace", !.name = "name"]
                        ELSE [NoObj EXCEPT !.kind = asType, !.name = "name",
                                           !.trace = CurTrace, !.parent = CurObs]
               IN Effect([objs EXCEPT ![id] = o], <<CreateRecord(id, o)>>,
                         IF CurTrace = 0 THEN id ELSE CurTrace, CurObs,
                         Append(frames, Frame("observe", id, 0)),
                         Call("observe-enter", id, "return", FALSE), nInfos)

\* the wrapped function has returned or raised: the rest of _trace_sync /
\* _trace_async. `capture` is capture_output.
ObserveExit(outcome, capture) ==
    /\ CanCall
    /\ Top(frames) # 0
    /\ LET f == frames[Top(frames)]
           out == IF outcome = "Exception" THEN "error"
                  ELSE IF capture THEN "result" ELSE None
       IN /\ f.wrap = "observe"
          /\ IF f.obj = 0 \/ outcome = "BaseException"
             THEN Effect(objs, <<>>, CurTrace, CurObs, Pop(frames),
                         WrapperExit("observe-exit", f, outcome), nInfos)
             ELSE Effect(ObjsAfterEnd(f.obj, out, None, None),
                         RecsOfEnd(f.obj, out, None, None),
                         TraceSlotAfterEnd(f.obj), CurObs, Pop(frames),
                         WrapperExit("observe-exit", f, outcome), nInfos)

\* generation(name, model) / ageneration(name, model) up to the yield (wrap =
\* "generation"), and start_generation(name, model) (wrap = "started"), which
\* runs the same statements and returns the context
GenOpen(wrap, op, model) ==
    /\ CanCall
    /\ Len(frames) < MaxDepth
    /\ IF cState # "enabled"
       THEN Effect(objs, <<>>, CurTrace, CurObs, Append(frames, Frame(wrap, 0, 0)),
                   Call(op, 0, "return", FALSE), nInfos)
       ELSE IF CurTrace = 0
       THEN /\ Cardinality(FreshIds) >= 2
            /\ LET tid == NextId
                   gid == SecondId
                   t == [NoObj EXCEPT !.kind = "trace", !.name = "name"]
                   g == [NoObj EXCEPT !.kind = "generation", !.name = "name",
                                      !.trace = tid, !.parent = CurObs, !.model = model]
               IN Effect([objs EXCEPT ![tid] = t, ![gid] = g],
                         <<CreateRecord(tid, t), CreateRecord(gid, g)>>,
                         tid, gid, Append(frames, Frame(wrap, gid, CurObs)),
                         Call(op, gid, "return", FALSE), nInfos)
       ELSE /\ FreshIds # {}
            /\ LET gid == NextId
                   g == [NoObj EXCEPT !.kind = "generation", !.name = "name",
                                      !.trace = CurTrace, !.parent = CurObs, !.model = model]
               IN Effect([objs EXCEPT ![gid] = g], <<CreateRecord(gid, g)>>,
                         CurTrace, gid, Append(frames, Frame(wrap, gid, CurObs)),
                         Call(op, gid, "return", FALSE), nInfos)

GenScopeEnter(model) == GenOpen("generation", "generation-enter", model)

StartGeneration(model) == GenOpen("started", "start-generation", model)

\* GenerationContext.update(output, usage, model, metadata) of the i-th open wrapper
CtxUpdate(i, output, um, md) ==
    /\ CanCall
    /\ i \in 1..Len(frames)
    /\ frames[i].wrap \in {"generation", "started"}
    /\ LET f == frames[i] IN
       IF f.obj # 0 /\ ~f.ctxEnded
       THEN Effect([objs EXCEPT ![f.obj] = [@ EXCEPT !.output = Arg(output, @),
                                                     !.usage = Arg(um[1], @),
                                                     !.model = Arg(um[2], @),
                                                     !.metadata = Merge(@, md)]],
                   <<>>, CurTrace, CurObs, frames,
                   Call("ctx-update", f.obj, "return", objs[f.obj].ended), nInfos)
       ELSE Effect(objs, <<>>, CurTrace, CurObs, frames,
                   Call("ctx-update", f.obj, "return", TRUE), nInfos)

\* GenerationContext.end(output, usage, model) of the i-th open wrapper
CtxEnd(i, output, um) ==
    /\ CanCall
    /\ i \in 1..Len(frames)
    /\ frames[i].wrap \in {"generation", "started"}
    /\ LET f == frames[i] IN
       IF f.obj # 0 /\ ~f.ctxEnded
       THEN Effect(ObjsAfterEnd(f.obj, output, um[1], um[2]),
                   RecsOfEnd(f.obj, output, um[1], um[2]),
                   CurTrace, RestoredObservation(f), [frames EXCEPT ![i].ctxEnded = TRUE],
                   Call("ctx-end", f.obj, "return", objs[f.obj].ended), nInfos)
       ELSE Effect(objs, <<>>, CurTrace, CurObs, frames,
                   Call("ctx-end", f.obj, "return", TRUE), nInfos)

\* the block of generation() / ageneration() has ended: the except and the finally
GenScopeExit(outcome) ==
    /\ CanCall
    /\ Top(frames) # 0
    /\ LET f == frames[Top(frames)]
           out == IF outcome = "Exception" THEN "error" ELSE None
       IN /\ f.wrap = "generation"
          /\ IF f.obj = 0 \/ f.ctxEnded
             THEN Effect(objs, <<>>, CurTrace, CurObs, Pop(frames),
                         WrapperExit("generation-exit", f, outcome), nInfos)
             ELSE Effect(ObjsAfterEnd(f.obj, out, None, None),
                         RecsOfEnd(f.obj, out, None, None),
                         CurTrace, RestoredObservation(f), Pop(frames),
                         WrapperExit("generation-exit", f, outcome), nInfos)

(* ------------------------------------------------------------------ *)
(* Terminal commands: run() and terminal_scope()                       *)
(* ------------------------------------------------------------------ *)
\* exit_code = -1: the command, or the block of a terminal_scope, raised
FailedExitCode == 0 - 1

\* what a command run by subprocess.run ends with: exit code 0, another exit
\* code, or a timeout or OSError (caught by TerminalClient.run)
CommandExits == {0, 1, FailedExitCode}

\* the body of the terminal-command-create record of TerminalClient.track
TerminalRecord(id, t, exitCode, success) ==
    [type |-> "terminal-command-create", id |-> id, trace |-> t, parent |-> Unset,
     name |-> Absent, output |-> Absent, usage |-> Absent, model |-> Absent,
     endTime |-> Unset, by |-> "create", meta |-> 0,
     exitCode |-> exitCode, success |-> success]

\* a run() that goes on without a client or without a trace
RunRaisesNever(client, trace) == FALSE

\* run(): `if client is None: raise RuntimeError`, `if trace is None: raise RuntimeError`
RunRaises(client, trace) == client = 0 \/ trace = 0

\* the global run(cmd, client, trace_id): the client is the argument or the current
\* client, the trace the argument or the current trace; TerminalClient.run runs the
\* command and tracks it, with success = (exit_code == 0)
TerminalRun(clientGiven, traceArg, exit) ==
    /\ CanCall
    /\ clientGiven => cState # "none"
    /\ traceArg # 0 => objs[traceArg].kind = "trace"
    /\ LET client == IF clientGiven THEN 1 ELSE ctxv["t1"]["client"]
           trace == IF traceArg # 0 THEN traceArg ELSE CurTrace
       IN IF RunRaises(client, trace)
          THEN Effect(objs, <<>>, CurTrace, CurObs, frames,
                      [Call("terminal-run", 0, "RuntimeError", FALSE) EXCEPT !.runs = 0],
                      nInfos)
          ELSE Effect(objs, <<TerminalRecord(nInfos + 1, trace, exit, exit = 0)>>,
                      CurTrace, CurObs, frames,
                      [Call("terminal-run", nInfos + 1, "return", FALSE) EXCEPT !.runs = 1],
                      nInfos + 1)

\* terminal_scope(client, trace_id, command) up to the yield: the context starts
\* with exit_code 0 and success True
TermScopeEnter(t) ==
    /\ CanCall /\ cState # "none"
    /\ Len(frames) < MaxDepth
    /\ objs[t].kind = "trace"
    /\ Effect(objs, <<>>, CurTrace, CurObs, Append(frames, Frame("terminal", t, 0)),
              Call("terminal-enter", t, "return", FALSE), nInfos)

\* the block sets ctx["exit_code"] and ctx["success"]
TermScopeSet(exit, success) ==
    /\ CanCall
    /\ Top(frames) # 0
    /\ frames[Top(frames)].wrap = "terminal"
    /\ Effect(objs, <<>>, CurTrace, CurObs,
              [frames EXCEPT ![Top(frames)].exitCode = exit, ![Top(frames)].success = success],
              Call("terminal-set", frames[Top(frames)].obj, "return", FALSE), nInfos)

\* a terminal_scope whose except clause leaves the context as the block set it
ScopeContextAfterKept(f, outcome) == f

\* terminal_scope: `except Exception` sets success False and exit_code -1
ScopeContextAfter(f, outcome) ==
    IF outcome = "Exception" THEN [f EXCEPT !.success = FALSE, !.exitCode = FailedExitCode]
    ELSE f

\* the block of terminal_scope has ended: the except clause, then the finally
\* clause, which tracks the command
TermScopeExit(outcome) ==
    /\ CanCall
    /\ Top(frames) # 0
    /\ LET f == frames[Top(frames)]
           c == ScopeContextAfter(f, outcome)
       IN /\ f.wrap = "terminal"
          /\ Effect(objs, <<TerminalRecord(nInfos + 1, f.obj, c.exitCode, c.success)>>,
                    CurTrace, CurObs, Pop(frames),
                    [op |-> "terminal-exit", obj |-> f.obj, at |-> oNow + 1,
                     outcome |-> Propagates(outcome), wasEnded |-> objs[f.obj].ended,
                     user |-> outcome, runs |-> f.runs],
                    nInfos + 1)

(* ------------------------------------------------------------------ *)
(* Trace.end / Span.end / Generation.end called by two threads         *)
(* ------------------------------------------------------------------ *)
\* the threads that call end() on the same object
EndThreads == {"e1", "e2"}

InitEnd ==
    /\ endPc = [th \in EndThreads |-> "idle"]
    /\ endArg = [th \in EndThreads |-> None]
    /\ endTarget = 0
    /\ endTimeSets = 0

\* a thread calls o.end(output); the two threads call it on the same object
EndCall(th, o, output) ==
    /\ endPc[th] = "idle"
    /\ cState # "none"
    /\ objs[o].kind # "none"
    /\ endTarget \in {0, o}
    /\ endTarget' = o
    /\ endArg' = [endArg EXCEPT ![th] = output]
    /\ endPc' = [endPc EXCEPT ![th] = "check"]
    /\ UNCHANGED <<objs, emitted, queue, oNow, endTimeSets>>
    /\ UNCHANGED notEnd

\* if self._ended: return
EndCheck(th) ==
    /\ endPc[th] = "check"
    /\ endPc' = [endPc EXCEPT ![th] =
                    IF AlreadyEnded(objs[endTarget]) THEN "done" ELSE "setEnded"]
    /\ UNCHANGED <<objs, emitted, queue, oNow, endArg, endTarget, endTimeSets>>
    /\ UNCHANGED notEnd

\* self._ended = True
EndSetEnded(th) ==
    /\ endPc[th] = "setEnded"
    /\ objs' = [objs EXCEPT ![endTarget].ended = TRUE]
    /\ endPc' = [endPc EXCEPT ![th] = "setTime"]
    /\ UNCHANGED <<emitted, queue, oNow, endArg, endTarget, endTimeSets>>
    /\ UNCHANGED notEnd

\* self.end_time = datetime.utcnow()
EndSetTime(th) ==
    /\ endPc[th] = "setTime"
    /\ objs' = [objs EXCEPT ![endTarget].endTime = oNow + 1]
    /\ oNow' = oNow + 1
    /\ endTimeSets' = endTimeSets + 1
    /\ endPc' = [endPc EXCEPT ![th] = "fields"]
    /\ UNCHANGED <<emitted, queue, endArg, endTarget>>
    /\ UNCHANGED notEnd

\* if output is not None: self.output = output
EndSetFields(th) ==
    /\ endPc[th] = "fields"
    /\ objs' = [objs EXCEPT ![endTarget].output = Arg(endArg[th], @)]
    /\ endPc' = [endPc EXCEPT ![th] = "add"]
    /\ UNCHANGED <<emitted, queue, oNow, endArg, endTarget, endTimeSets>>
    /\ UNCHANGED notEnd

\* if self._client.enabled: self._client._batch_queue.add({...}), the body read
\* from the fields as they are now; Trace.end does it through self.update and then
\* calls set_current_trace(None), which changes the context of the calling thread
\* only
EndAdd(th) ==
    /\ endPc[th] = "add"
    /\ LET recs == <<UpdateRecord(endTarget, objs[endTarget], "end")>> IN
        /\ emitted' = IF EmitsWhen(cState) THEN emitted \o recs ELSE emitted
        /\ queue' = IF EmitsWhen(cState) THEN PutAll(queue, recs) ELSE queue
    /\ endPc' = [endPc EXCEPT ![th] = "done"]
    /\ UNCHANGED <<objs, oNow, endArg, endTarget, endTimeSets>>
    /\ UNCHANGED notEnd

\* the main thread makes a trace and an observation, then two threads end one of
\* them, under every interleaving of the statements of the two calls
NextEnd ==
    \/ \E en \in BOOLEAN : NewClient(en)
    \/ /\ endTarget = 0
       /\ oNow < MaxCalls
       /\ \/ ClientTrace
          \/ \E t \in ObjIds : TraceSpan(t, 0)
          \/ \E t \in ObjIds : TraceGeneration(t, 0, None)
    \/ \E th \in EndThreads, o \in ObjIds, out \in OutArgs : EndCall(th, o, out)
    \/ \E th \in EndThreads :
          EndCheck(th) \/ EndSetEnded(th) \/ EndSetTime(th) \/ EndSetFields(th) \/ EndAdd(th)

(* ------------------------------------------------------------------ *)
(* AsyncBatchQueue: every call runs to its end before the next starts  *)
(* ------------------------------------------------------------------ *)
\* a call: what it was, what it returned, the accumulator it found, whether an
\* exception reached its caller
AsyncCall(op, ret, before, raised) ==
    [op |-> op, ret |-> ret, before |-> before, raised |-> raised]

\* AsyncBatchQueue(transport, flush_at=fa, max_queue_size=mq)
InitAsyncQueue(fa, mq) ==
    /\ aFlushAt = fa
    /\ aMaxQueueSize = mq
    /\ aBatch = <<>>
    /\ aSince = 0
    /\ aSent = <<>>
    /\ aFailed = {}
    /\ aAdded = 0
    /\ aCalls = 0
    /\ aLast = AsyncCall("none", "None", <<>>, FALSE)

InitAsync == InitAsyncQueue(FlushAt, MaxQueueSize)

\* an add() that flushes only above flush_at
AutoFlushAbove(b, fa) == Len(b) > fa

\* add(): if len(self._batch) >= self._flush_at: self.flush()
AutoFlush(b, fa) == Len(b) >= fa

\* whether an exception of send_batch leaves flush(): `except Exception` logs it
AsyncFlushRaises(outcome) == FALSE

\* flush() with b in self._batch: nothing on an empty batch; else the batch is
\* taken, _last_flush is set and Transport.send_batch(events) is called once,
\* whatever it returns or raises
AsyncFlush(b, outcome) ==
    IF b = <<>>
    THEN /\ aBatch' = b
         /\ UNCHANGED <<aSince, aSent, aFailed>>
    ELSE /\ aBatch' = <<>>
         /\ aSince' = 0
         /\ aSent' = Append(aSent, b)
         /\ aFailed' = aFailed \cup FailedOf(b, outcome)

\* add(event)
A_Add(outcome) ==
    /\ aAdded < MaxAdds
    /\ aAdded' = aAdded + 1
    /\ IF Len(aBatch) >= aMaxQueueSize
       THEN /\ aLast' = AsyncCall("add", "False", aBatch, FALSE)
            /\ UNCHANGED <<aBatch, aSince, aSent, aFailed>>
       ELSE LET b == Append(aBatch, aAdded + 1) IN
            /\ IF AutoFlush(b, aFlushAt)
               THEN /\ AsyncFlush(b, outcome)
                    /\ aLast' = AsyncCall("add", "True", aBatch, AsyncFlushRaises(outcome))
               ELSE /\ aBatch' = b
                    /\ aLast' = AsyncCall("add", "True", aBatch, FALSE)
                    /\ UNCHANGED <<aSince, aSent, aFailed>>
    /\ UNCHANGED <<aFlushAt, aMaxQueueSize, aCalls>>
    /\ UNCHANGED notAsync

\* check_flush()
A_CheckFlush(outcome) ==
    /\ aCalls < MaxCalls
    /\ aCalls' = aCalls + 1
    /\ IF aBatch # <<>> /\ aSince >= FlushInterval
       THEN /\ AsyncFlush(aBatch, outcome)
            /\ aLast' = AsyncCall("check_flush", "None", aBatch, AsyncFlushRaises(outcome))
       ELSE /\ aLast' = AsyncCall("check_flush", "None", aBatch, FALSE)
            /\ UNCHANGED <<aBatch, aSince, aSent, aFailed>>
    /\ UNCHANGED <<aFlushAt, aMaxQueueSize, aAdded>>
    /\ UNCHANGED notAsync

\* flush(), and stop(), which only calls flush()
A_Flush(op, outcome) ==
    /\ aCalls < MaxCalls
    /\ aCalls' = aCalls + 1
    /\ AsyncFlush(aBatch, outcome)
    /\ aLast' = AsyncCall(op, "None", aBatch, AsyncFlushRaises(outcome))
    /\ UNCHANGED <<aFlushAt, aMaxQueueSize, aAdded>>
    /\ UNCHANGED notAsync

\* time passes
A_Tick ==
    /\ aSince < FlushInterval
    /\ aSince' = aSince + 1
    /\ UNCHANGED <<aFlushAt, aMaxQueueSize, aBatch, aSent, aFailed, aAdded, aCalls, aLast>>
    /\ UNCHANGED notAsync

NextAsync ==
    \/ \E o \in SendOutcomes : A_Add(o)
    \/ \E o \in SendOutcomes : A_CheckFlush(o)
    \/ \E op \in {"flush", "stop"}, o \in SendOutcomes : A_Flush(op, o)
    \/ A_Tick

\* the calls that make, change and read metadata
NextMeta ==
    \/ \E en \in BOOLEAN : NewClient(en)
    \/ /\ oNow < MaxCalls
       /\ \/ \E md \in MetaArgs : ClientTraceMeta(md)
          \/ \E t \in ObjIds, md \in MetaArgs : CallerMutates(t, md)
          \/ \E t \in ObjIds, n \in NameArgs, out \in OutArgs, md \in MetaArgs :
                TraceUpdate(t, n, out, md)
          \/ \E t \in ObjIds, out \in OutArgs : TraceEnd(t, out)
          \/ \E m \in {None, "m"} : GenScopeEnter(m)
          \/ \E i \in 1..MaxDepth, out \in OutArgs, um \in UsageModelArgs, md \in MetaArgs :
                CtxUpdate(i, out, um, md)

\* the terminal calls of one task
NextTerm ==
    \/ \E en \in BOOLEAN : NewClient(en)
    \/ /\ oNow < MaxCalls
       /\ \/ ClientTrace
          \/ \E t \in ObjIds, out \in OutArgs : TraceEnd(t, out)
          \/ \E cg \in BOOLEAN, ta \in {0} \cup ObjIds, ex \in CommandExits :
                TerminalRun(cg, ta, ex)
          \/ \E t \in ObjIds : TermScopeEnter(t)
          \/ \E ex \in {0, 1}, su \in BOOLEAN : TermScopeSet(ex, su)
          \/ \E oc \in Outcomes2 : TermScopeExit(oc)

\* a call of the main thread on the client, on one of its objects or on a wrapper
ObsCall ==
    \/ ClientTrace
    \/ \E t \in ObjIds, pa \in {0} \cup ObservationIds : TraceSpan(t, pa)
    \/ \E t \in ObjIds, pa \in {0} \cup ObservationIds, m \in {None, "m"} :
          TraceGeneration(t, pa, m)
    \/ \E t \in ObjIds, n \in NameArgs, out \in OutArgs : TraceUpdate(t, n, out, EmptyMeta)
    \/ \E t \in ObjIds, out \in OutArgs : TraceEnd(t, out)
    \/ \E o \in ObjIds, out \in OutArgs : SpanEnd(o, out)
    \/ \E o \in ObjIds, out \in OutArgs, um \in UsageModelArgs : GenerationEnd(o, out, um)
    \/ \E k \in TrackKinds, t \in ObjIds : Track(k, t)
    \/ \E t \in ObjIds : Score(t, 0, "number", "default")
    \/ \E a \in {"span", "generation"} : ObserveEnter(a)
    \/ \E oc \in Outcomes2, c \in BOOLEAN : ObserveExit(oc, c)
    \/ \E m \in {None, "m"} : GenScopeEnter(m)
    \/ \E m \in {None, "m"} : StartGeneration(m)
    \/ \E i \in 1..MaxDepth, out \in OutArgs, um \in UsageModelArgs :
          CtxUpdate(i, out, um, EmptyMeta)
    \/ \E i \in 1..MaxDepth, out \in OutArgs, um \in UsageModelArgs : CtxEnd(i, out, um)
    \/ \E oc \in Outcomes2 : GenScopeExit(oc)

\* a run of the main thread: it makes the client, then up to MaxCalls calls
NextObs ==
    \/ \E en \in BOOLEAN : NewClient(en)
    \/ oNow < MaxCalls /\ ObsCall

\* the example of the AgentTrace docstring: client.trace(...), trace.generation(...),
\* generation.end(output, usage), trace.end(), client.flush(), on an enabled
\* client, with the background worker running and time passing
E_Trace == cState = "enabled" /\ oNow = 0 /\ ClientTrace
E_Generation == oNow = 1 /\ \E m \in {None, "m"} : TraceGeneration(1, 0, m)
E_GenerationEnd == oNow = 2 /\ GenerationEnd(2, "out", <<"u", "m">>)
E_TraceEnd == oNow = 3 /\ TraceEnd(1, None)
E_Flush == oNow = 4 /\ M_CallFlush

NextE2E ==
    \/ NewClient(TRUE)
    \/ E_Trace \/ E_Generation \/ E_GenerationEnd \/ E_TraceEnd \/ E_Flush
    \/ M_Drain \/ M_DrainEmpty \/ M_Take \/ M_SendBegin \/ M_SendEnd \/ M_FlushReturn
    \/ Tick
    \/ W_While \/ W_Get \/ W_GetTimeout \/ W_Append \/ W_Check
    \/ W_SendBegin \/ W_SendEnd

(* ------------------------------------------------------------------ *)
(* Specification of the BatchQueue                                     *)
(* ------------------------------------------------------------------ *)
Init == InitBQ /\ InitHttp /\ InitCtx /\ InitObs /\ InitEnd /\ InitAsync

Next ==
    \/ \E p \in Producers : Add(p)
    \/ Tick
    \/ W_While \/ W_Get \/ W_GetTimeout \/ W_Append \/ W_Check
    \/ W_SendBegin \/ W_SendEnd
    \/ M_CallFlush \/ M_CallStop \/ M_Drain \/ M_DrainEmpty \/ M_Take
    \/ M_SendBegin \/ M_SendEnd \/ M_FlushReturn \/ M_Join

Spec == Init /\ [][Next]_vars

(* ------------------------------------------------------------------ *)
(* The worker alone: producers, the worker and the clock; nobody calls *)
(* flush() or stop(). The worker thread is scheduled and time passes.  *)
(* ------------------------------------------------------------------ *)
NextLive ==
    \/ \E p \in Producers : Add(p)
    \/ Tick
    \/ W_While \/ W_Get \/ W_GetTimeout \/ W_Append \/ W_Check
    \/ W_SendBegin \/ W_SendEnd

SpecLive == Init /\ [][NextLive]_vars /\ WF_vars(Worker) /\ WF_vars(Tick)

(* ------------------------------------------------------------------ *)
(* Shutdown: a producer, the worker, the clock and a controlling thread *)
(* that calls stop(), and stop() again. Both threads are scheduled and *)
(* every Transport.send_batch call returns or raises.                  *)
(* ------------------------------------------------------------------ *)
\* the steps of the controlling thread inside a call of flush() or stop()
MainSteps ==
    \/ M_Drain \/ M_DrainEmpty \/ M_Take \/ M_SendBegin \/ M_SendEnd
    \/ M_FlushReturn \/ M_Join

NextStop ==
    \/ Add("p1")
    \/ Tick
    \/ W_While \/ W_Get \/ W_GetTimeout \/ W_Append \/ W_Check
    \/ W_SendBegin \/ W_SendEnd
    \/ M_CallStop \/ M_CallStopAgain
    \/ M_Drain \/ M_DrainEmpty \/ M_Take \/ M_SendBegin \/ M_SendEnd
    \/ M_FlushReturn \/ M_Join

SpecStop == Init /\ [][NextStop]_vars /\ WF_vars(Worker) /\ WF_vars(MainSteps)

(* ------------------------------------------------------------------ *)
(* The accumulator: a BatchQueue built with any flush_at from 1 to     *)
(* FlushAt, one producer, the worker, the clock, flush() and stop()    *)
(* ------------------------------------------------------------------ *)
InitAcc ==
    /\ \E fa \in 1..FlushAt : InitQueue(fa, MaxQueueSize)
    /\ InitHttp /\ InitCtx /\ InitObs /\ InitEnd /\ InitAsync

NextAcc ==
    \/ Add("p1")
    \/ Tick
    \/ W_While \/ W_Get \/ W_GetTimeout \/ W_Append \/ W_Check
    \/ W_SendBegin \/ W_SendEnd
    \/ M_CallFlush \/ M_CallStop \/ M_Drain \/ M_DrainEmpty \/ M_Take
    \/ M_SendBegin \/ M_SendEnd \/ M_FlushReturn \/ M_Join

SpecAcc == InitAcc /\ [][NextAcc]_vars

\* one call of an HttpTransport operation, under every sequence of outcomes of
\* its requests
SpecHttp == Init /\ [][NextHttp]_vars

\* the context store under every interleaving of the set and get calls of the tasks
SpecCtx == Init /\ [][NextCtx]_vars

\* the scopes of one task
SpecScope == Init /\ [][NextScope]_vars

\* the calls of one task on the client, its traces and observations, and the wrappers
SpecObs == Init /\ [][NextObs]_vars

\* traces and generation scopes with metadata, and updates of it
SpecMeta == Init /\ [][NextMeta]_vars

\* run() and terminal_scope() with and without a client and a current trace
SpecTerm == Init /\ [][NextTerm]_vars

\* score() with every shape of value and every data_type, on traces and spans
\* that are open or ended
NextScore ==
    \/ \E en \in BOOLEAN : NewClient(en)
    \/ /\ oNow < MaxCalls
       /\ \/ ClientTrace
          \/ \E t \in ObjIds : TraceSpan(t, 0)
          \/ \E t \in ObjIds, out \in OutArgs : TraceEnd(t, out)
          \/ \E o \in ObjIds, out \in OutArgs : SpanEnd(o, out)
          \/ \E t \in ObjIds, o \in {0} \cup ObservationIds, sh \in ValueShapes,
                dt \in DataTypeArgs : Score(t, o, sh, dt)

SpecScore == Init /\ [][NextScore]_vars

\* start_generation() and GenerationContext.end() on the contexts it returned, in
\* every order
NextGen ==
    \/ \E en \in BOOLEAN : NewClient(en)
    \/ /\ oNow < MaxGenCalls
       /\ \/ \E m \in {None, "m"} : StartGeneration(m)
          \/ \E i \in 1..MaxDepth, out \in OutArgs, um \in UsageModelArgs : CtxEnd(i, out, um)

SpecGen == Init /\ [][NextGen]_vars

\* an AsyncBatchQueue built with any flush_at from 1 to FlushAt and a
\* max_queue_size below, at and above it, under every sequence of calls
InitAsyncAny ==
    /\ InitBQ /\ InitHttp /\ InitCtx /\ InitObs /\ InitEnd
    /\ \E fa \in 1..FlushAt, mq \in 1..(FlushAt + 1) : InitAsyncQueue(fa, mq)

SpecAsync == InitAsyncAny /\ [][NextAsync]_vars

\* two threads calling end() on one trace, span or generation
SpecEnd == Init /\ [][NextEnd]_vars

\* the docstring example under every interleaving with the background worker
SpecE2E == Init /\ [][NextE2E]_vars


(* ------------------------------------------------------------------ *)
(* Where the records are                                               *)
(* ------------------------------------------------------------------ *)
\* the positions <<batch number, index in the batch>> at which Transport.send_batch
\* received record r
Positions(r) == {x \in (1..Len(sent)) \X (1..MaxAdds) :
                    x[2] <= Len(sent[x[1]]) /\ sent[x[1]][x[2]] = r}

\* Transport.send_batch received r1 before r2: in an earlier batch, or earlier in
\* the same batch
ReceivedBefore(r1, r2) ==
    \E a \in Positions(r1), b \in Positions(r2) :
        a[1] < b[1] \/ (a[1] = b[1] /\ a[2] < b[2])

\* records still inside the BatchQueue: queued, in the worker's hands, accumulated,
\* or held by a flush() that has not called send_batch yet
Held == SeqToSet(queue) \cup SeqToSet(wEvent) \cup SeqToSet(batch)
        \cup (IF pcW = "send" THEN SeqToSet(wEvents) ELSE {})
        \cup (IF pcM \in {"drain", "take", "send"} THEN SeqToSet(mEvents) ELSE {})

(* ------------------------------------------------------------------ *)
(* Claims                                                              *)
(* ------------------------------------------------------------------ *)

\* C1: FIFO per producer: of two accepted records of one producer, the one added
\* first is received by Transport.send_batch first (earlier batch, or earlier
\* position in the same batch).
C1_FifoPerProducer ==
    \A r1 \in Accepted, r2 \in Accepted :
        (r1[1] = r2[1] /\ r1[2] < r2[2] /\ r2 \in SentRecords)
            => ReceivedBefore(r1, r2)

\* C2: no duplication: every record is received by Transport.send_batch at most
\* once, over all batches.
C2_NoDuplication ==
    \A r \in Records : Cardinality(Positions(r)) <= 1

\* a worker batch and a flush() batch have both been sent, and every accepted
\* record was sent
C2_Witness ==
    /\ Len(sent) >= 2
    /\ flushCalls >= 1
    /\ Cardinality(Accepted) = MaxAdds
    /\ SentRecords = Accepted

\* C3: when stop() has returned and no add() ran during or after it, every
\* accepted record has been passed to Transport.send_batch and none is left in the
\* queue, in the worker's hands or in the accumulator.
C3_StopDrains ==
    (lastReturned = "stop" /\ pcM = "idle" /\ ~addAfterStop)
        => (Accepted \subseteq SentRecords /\ Held = {})

\* C5: when flush() has returned, every record accepted before the call has been
\* passed to Transport.send_batch.
C5_FlushDrains ==
    (lastReturned = "flush" /\ pcM = "idle") => mSnap \subseteq SentRecords

\* the step is an add() of producer p
IsAddOf(p) == nextRec'[p] = nextRec[p] + 1

\* C4: add() never blocks and never raises: below max_queue_size records it appends
\* the record and returns True; at max_queue_size records it returns False, drops
\* the record and leaves the queue unchanged. An add() can always run, and a record
\* is dropped only by an add() that found the queue at capacity.
C4_AddNeverBlocks ==
    /\ [][\A p \in Producers :
          IsAddOf(p) =>
             LET rec == <<p, nextRec[p]>> IN
             /\ addRet'[p] \in {"True", "False"}
             /\ Len(queue) < max_queue_size =>
                   (addRet'[p] = "True" /\ queue' = Append(queue, rec) /\ dropped' = dropped)
             /\ Len(queue) >= max_queue_size =>
                   (addRet'[p] = "False" /\ queue' = queue /\ dropped' = dropped \cup {rec})
             /\ Len(queue') <= max_queue_size]_vars
    /\ [](\A p \in Producers : Added < MaxAdds => ENABLED Add(p))

\* an add() found the queue at capacity, returned False, and the queue still holds
\* max_queue_size records
C4_Witness ==
    \E p \in Producers :
        /\ addRet[p] = "False"
        /\ <<p, nextRec[p] - 1>> \in dropped
        /\ Len(queue) = max_queue_size
        /\ Cardinality(Accepted) = max_queue_size

\* C6: size threshold: the worker never leaves flush_at or more records in the
\* accumulator at the end of an iteration (it sends them without looking at the
\* clock), and a batch of fewer than flush_at records is sent by the worker only
\* when flush_interval had elapsed since its last send (or its start).
C6_SizeThreshold ==
    /\ pcW \in {"while", "get", "append", "exit"} => Len(batch) < flush_at
    /\ pcW \in {"send", "sending"} =>
          (Len(wEvents) >= flush_at \/ wElapsed >= FlushInterval)

\* the worker is sending flush_at records although flush_interval has not elapsed
C6_Witness ==
    /\ pcW = "sending"
    /\ Len(wEvents) = flush_at
    /\ wElapsed < FlushInterval
    /\ flush_at > 1

\* C8: a batch whose send failed is discarded: its records are not put back into
\* the queue or the accumulator and are not passed to send_batch again, no error
\* reaches the caller of flush()/stop(), and the worker leaves its loop only when
\* stop() asked it to.
C8_FailedBatchDiscarded ==
    /\ \A r \in failed : r \notin Held /\ Cardinality(Positions(r)) = 1
    /\ ~mError
    /\ pcW = "exit" => stopCalled

\* a send of the worker failed, and the worker afterwards sent a later record
\* successfully (nobody called flush() or stop())
C8_Witness ==
    /\ flushCalls = 0 /\ ~stopCalled
    /\ Len(sent) >= 2
    /\ SeqToSet(sent[1]) \subseteq failed
    /\ pcW = "while"
    /\ SeqToSet(sent[Len(sent)]) \cap failed = {}

\* C7: time threshold: with the worker running and nobody calling flush(), every
\* accepted record is eventually passed to Transport.send_batch by the worker, also
\* when fewer than flush_at records are ever added.
C7_TimeThreshold ==
    \A r \in Records : (r \in Accepted) ~> (r \in SentRecords)

\* the worker sent a batch of fewer than flush_at records, and everything accepted
\* has been sent
C7_Witness ==
    /\ flushCalls = 0 /\ ~stopCalled
    /\ \E i \in 1..Len(sent) : Len(sent[i]) < flush_at
    /\ Accepted # {}
    /\ Accepted = SentRecords

(* ------------------------------------------------------------------ *)
(* Claims about HttpTransport                                          *)
(* ------------------------------------------------------------------ *)
\* the response is one the ingestion endpoint accepts the batch with
IsAccepted(resp) == resp.kind = "status" /\ resp.code \in {200, 201, 207}

\* a 4xx other than 429
IsFatal(resp) ==
    resp.kind = "status" /\ resp.code >= 400 /\ resp.code <= 499 /\ resp.code # 429

\* a 5xx, a timeout or a connection error
IsTransient(resp) ==
    \/ resp.kind = "status" /\ resp.code >= 500
    \/ resp.kind \in {"TimeoutException", "RequestError"}

\* the status codes of the requests made so far (0 for a request that raised)
Codes == [i \in 1..Len(hLog) |-> hLog[i].code]

\* C9: bounded retry: one send_batch call makes at most max_retries requests; the
\* first accepted response ends it with True, the first 4xx other than 429 ends it
\* with False, a 5xx, timeout or connection error is followed by another request
\* while attempts remain, and after max_retries unsuccessful requests it returns
\* False. With max_retries = 3: 500, 500, 200 is 3 requests and True; 404 is
\* 1 request and False.
C9_BoundedRetry ==
    hOp = "send_batch" =>
        /\ Len(hLog) <= hMax
        /\ \A i \in 1..Len(hLog) :
            /\ IsAccepted(hLog[i]) =>
                  (i = Len(hLog) /\ hPc = "done" /\ hResult = "True")
            /\ IsFatal(hLog[i]) =>
                  (i = Len(hLog) /\ hPc = "done" /\ hResult = "False")
            /\ (IsTransient(hLog[i]) /\ i < hMax /\ hPc = "done") => Len(hLog) > i
        /\ (hPc = "done" /\ Len(hLog) = hMax /\ hMax > 0 /\ ~IsAccepted(hLog[hMax]))
              => hResult = "False"
        /\ (hMax = 3 /\ Codes = <<500, 500, 200>>) => (hPc = "done" /\ hResult = "True")
        /\ (hLog # <<>> /\ hLog[1].code = 404)
              => (Len(hLog) = 1 /\ hPc = "done" /\ hResult = "False")

\* max_retries = 3, the endpoint answered 500, 500, 200: three requests, True
C9_Witness ==
    /\ hOp = "send_batch"
    /\ hMax = 3
    /\ Codes = <<500, 500, 200>>
    /\ hPc = "done"
    /\ hResult = "True"

\* C10: the transport never raises: whatever the outcomes of its requests,
\* send_batch returns True or False, get and post return the response data or
\* None, and no exception reaches the caller.
C10_NeverRaises ==
    /\ hResult # "raised"
    /\ hPc = "done" =>
          /\ hOp = "send_batch" => hResult \in {"True", "False"}
          /\ hOp \in {"get", "post"} => hResult \in {"data", "None"}

\* a call ended on an outcome that raises inside the try: a Retry-After header
\* that is no integer, a body that is not JSON, or an exception of the client
C10_Witness ==
    /\ hPc = "done"
    /\ hLog # <<>>
    /\ LET last == hLog[Len(hLog)] IN
        \/ hOp = "send_batch" /\ last.code = 429 /\ ~IsIntLiteral(last.retryAfter)
             /\ last.retryAfter # "absent"
        \/ hOp = "get" /\ last.code = 200 /\ last.body = "garbage"
        \/ hOp = "post" /\ last.kind = "Exception"
    /\ hResult = Failure(hOp)

\* a 2xx response whose body parses
Is2xx(resp) ==
    resp.kind = "status" /\ resp.code >= 200 /\ resp.code <= 299 /\ resp.body = "json"

\* what a call returns on success: send_batch True, get and post the response data
Success(op) == IF op = "send_batch" THEN "True" ELSE "data"

\* C11: outcome classification: in send_batch, get and post alike, every 2xx
\* response (207 included) is a success: it ends the call with the success value,
\* is never followed by another request and is never reported as a failure.
C11_Every2xxIsSuccess ==
    \A i \in 1..Len(hLog) :
        Is2xx(hLog[i]) => (i = Len(hLog) /\ hPc = "done" /\ hResult = Success(hOp))

\* the wait, in half seconds, the claim gives for a request answered with 429
RetryAfterWait(resp) ==
    IF resp.retryAfter = "absent" THEN 2 * DefaultRetryAfter
    ELSE IF IsIntLiteral(resp.retryAfter) THEN 2 * IntOf(resp.retryAfter)
    ELSE 0

\* a 429 or a 5xx
IsRetriedStatus(resp) ==
    resp.kind = "status" /\ (resp.code = 429 \/ resp.code >= 500)

\* C12: a 429 consumes exactly one attempt: the transport waits Retry-After seconds
\* (5 without the header) and retries; a call whose requests were all answered with
\* 429, or with a mix of 429 and 5xx, makes exactly max_retries requests and returns
\* failure.
C12_RateLimitedOneAttempt ==
    /\ \A i \in 1..Len(hLog) :
          (hLog[i].code = 429 /\ (i < Len(hLog) \/ hPc = "done")) =>
              /\ i <= Len(hWaits)
              /\ hWaits[i] = RetryAfterWait(hLog[i])
    /\ (hPc = "done" /\ hLog # <<>> /\ \A i \in 1..Len(hLog) : IsRetriedStatus(hLog[i]))
          => (Len(hLog) = hMax /\ hResult = Failure(hOp))

(* ------------------------------------------------------------------ *)
(* Claims about the context store                                      *)
(* ------------------------------------------------------------------ *)
\* C17: context isolation: a get_client() / get_current_trace() /
\* get_current_observation() of a task that has set the value itself returns the
\* value this task set last, whatever the other tasks set in between; and a value
\* a task has set stays in its context until the task sets another.
C17_ContextIsolation ==
    /\ lastGet.task # "none" =>
          (lastSet[lastGet.task][lastGet.slot] # Unset
              => lastGet.value = lastSet[lastGet.task][lastGet.slot])
    /\ \A t \in Tasks, s \in Slots :
          lastSet[t][s] # Unset => ctxv[t][s] = lastSet[t][s]

\* two tasks started from the main thread hold different current traces, and a
\* get_current_trace() of the first returned its own
C17_Witness ==
    /\ tStatus["t2"] = "running" /\ tStatus["t3"] = "running"
    /\ lastSet["t2"]["trace"] = 1
    /\ lastSet["t3"]["trace"] = 2
    /\ ctxv["t3"]["trace"] = 2
    /\ lastGet = [task |-> "t2", slot |-> "trace", value |-> 1]

\* C18: context inheritance: a unit of work started by a task (a thread or an
\* asyncio task) that has not set a value itself sees the client, trace and
\* observation its parent had when it started it, and what a task has set is not
\* changed by the tasks it started.
C18_ContextInheritance ==
    /\ \A c \in Tasks :
          (tStatus[c] = "running" /\ tHow[c] \in SpawnKinds) =>
              \A s \in Slots : lastSet[c][s] = Unset => ctxv[c][s] = spawnSnap[c][s]
    /\ \A t \in Tasks, s \in Slots :
          lastSet[t][s] # Unset => ctxv[t][s] = lastSet[t][s]

\* C19: scoped restore: when every scope on a ContextVar has been exited, normally
\* or by an exception, the ContextVar holds the value it held before the outermost
\* scope was entered; while a scope is open (and nothing was set directly in it)
\* the ContextVar holds the value of the innermost open scope on it.
C19_ScopedRestore ==
    \A s \in {"trace", "observation"} :
        LET fs == FramesOn(s) IN
        /\ (fs = <<>> /\ outer[s] # Unset) => ctxv["t1"][s] = outer[s]
        /\ (fs # <<>> /\ ~fs[Len(fs)].touched) => ctxv["t1"][s] = fs[Len(fs)].value

\* scopes were nested MaxDepth deep over a current trace and a current observation
\* that were not None, the outermost was left by an exception, and both ContextVars
\* hold what they held before the outermost scope
C19_Witness ==
    /\ scopes = <<>>
    /\ scopeExc
    /\ depthSeen = MaxDepth
    /\ outer["trace"] = 1
    /\ ctxv["t1"]["trace"] = 1
    /\ outer["observation"] = 2
    /\ ctxv["t1"]["observation"] = 2

(* ------------------------------------------------------------------ *)
(* Claims about the observation model                                  *)
(* ------------------------------------------------------------------ *)
\* the positions in `emitted` of the update records end() made for object o
EndRecordsOf(o) ==
    {i \in 1..Len(emitted) :
        /\ emitted[i].by = "end"
        /\ emitted[i].id = o
        /\ emitted[i].type \in {"trace-update", "span-update", "generation-update"}}

\* the step is a call of `op` (one of ops) on an object that had ended before
IsCallOnEnded(ops) ==
    /\ lastCall'.at = oNow + 1
    /\ lastCall'.op \in ops
    /\ lastCall'.obj # 0
    /\ objs[lastCall'.obj].ended

\* C13: end-once: an end() on a Trace, Span or Generation that has ended enqueues
\* no record, changes no field of any object and no context slot, and raises
\* nothing; and on an enabled client every ended object has exactly one update
\* record made by end(), every other object none.
C13_EndOnce ==
    /\ [][IsCallOnEnded({"end"}) =>
            /\ objs' = objs
            /\ emitted' = emitted
            /\ queue' = queue
            /\ ctxv' = ctxv
            /\ lastCall'.outcome = "return"]_vars
    /\ [](\A o \in ObjIds :
            Cardinality(EndRecordsOf(o)) =
                IF objs[o].ended /\ cState = "enabled" THEN 1 ELSE 0)

\* end() was called on a generation that had ended at an earlier time, on an
\* enabled client
C13_Witness ==
    /\ cState = "enabled"
    /\ lastCall.op = "end" /\ lastCall.at = oNow /\ lastCall.wasEnded
    /\ objs[lastCall.obj].kind = "generation"
    /\ objs[lastCall.obj].endTime < oNow
    /\ Cardinality(EndRecordsOf(lastCall.obj)) = 1

\* C14: terminal state: an update() or end() on a Trace or observation that has
\* ended (Trace.update, Trace.end, Span.end, Generation.end,
\* GenerationContext.update, GenerationContext.end) enqueues no record and changes
\* no attribute of any object.
C14_TerminalState ==
    [][IsCallOnEnded({"update", "end", "ctx-update", "ctx-end"}) =>
            (objs' = objs /\ emitted' = emitted /\ queue' = queue)]_vars

\* the kinds of the records of all batches passed to send_batch, in order
RECURSIVE SentKinds(_)
SentKinds(batches) ==
    IF batches = <<>> THEN <<>>
    ELSE [i \in 1..Len(Head(batches)) |-> Head(batches)[i].type] \o SentKinds(Tail(batches))

\* C15: end-to-end order: when the client.flush() that ends the scenario has
\* returned, Transport has received exactly the four records trace-create,
\* generation-create, generation-update, trace-update, in this order over the
\* batches in the order they were sent.
C15_EndToEndOrder ==
    (cState = "enabled" /\ oNow = 4 /\ lastReturned = "flush" /\ pcM = "idle") =>
        SentKinds(sent) = <<"trace-create", "generation-create",
                            "generation-update", "trace-update">>

\* C16: a disabled client delivers nothing: whatever is called, no record is
\* passed to the queue and the queue stays empty, while the calls still make and
\* return their objects: a create call returns a new object of its kind, an end()
\* ends it at the time of the call, a tracking call returns an info with a new id;
\* and with no client or a disabled client an @observe wrapper and a generation()
\* scope make no object, run the user code once and hand its result or exception on.
C16_DisabledNoOp ==
    /\ cState # "enabled" => (emitted = <<>> /\ queue = <<>> /\ sent = <<>>)
    /\ (cState = "disabled" /\ lastCall.at = oNow /\ oNow > 0) =>
          /\ lastCall.op \in {"trace", "span", "generation"} =>
                (objs[lastCall.obj].kind = lastCall.op /\ ~objs[lastCall.obj].ended)
          /\ (lastCall.op = "end" /\ ~lastCall.wasEnded) =>
                (objs[lastCall.obj].ended /\ objs[lastCall.obj].endTime = lastCall.at)
          /\ lastCall.op \in TrackKinds => (lastCall.obj = nInfos /\ nInfos > 0)
    /\ (cState # "enabled" /\ lastCall.at = oNow
            /\ lastCall.op \in {"observe-exit", "generation-exit"}) =>
          /\ lastCall.obj = 0
          /\ lastCall.runs = 1
          /\ lastCall.outcome = lastCall.user

\* a disabled client made a trace, ended it and tracked something for it
C16_Witness ==
    /\ cState = "disabled"
    /\ \E t \in ObjIds : objs[t].kind = "trace" /\ objs[t].ended
    /\ lastCall.op \in TrackKinds
    /\ nInfos = 1
    /\ oNow = MaxCalls

InSend == {th \in {"worker", "caller"} :
              \/ th = "worker" /\ pcW = "sending"
              \/ th = "caller" /\ pcM = "sending"}

\* C30: single sender: at most one Transport.send_batch call of the BatchQueue
\* is in progress at any time, under every interleaving of the background worker
\* with the thread that calls flush() and stop().
C30_SingleSender == Cardinality(InSend) <= 1

(* ------------------------------------------------------------------ *)
(* Claims about the wrappers                                           *)
(* ------------------------------------------------------------------ *)
\* C21: closure on all exit paths: when an @observe wrapper that made an
\* observation (or a trace) has exited, by a return, by an Exception or by a
\* BaseException that is no Exception, that object has ended and has exactly one
\* update record made by end().
C21_ClosureOnAllExits ==
    (lastCall.at = oNow /\ lastCall.op = "observe-exit" /\ lastCall.obj # 0) =>
        /\ objs[lastCall.obj].ended
        /\ Cardinality(EndRecordsOf(lastCall.obj)) = 1

\* C22: implicit parent resolution: a Trace.span() or Trace.generation() called
\* without parent_observation_id while the task has a current observation O makes
\* an observation whose parent is O, and the *-create record carries that parent;
\* a call with the argument makes one whose parent is the argument.
C22_ImplicitParent ==
    [][\A t \in ObjIds, pa \in {0} \cup ObservationIds :
          (TraceSpan(t, pa) \/ \E m \in {None, "m"} : TraceGeneration(t, pa, m)) =>
              LET want == IF pa = 0 THEN CurObs ELSE pa IN
              /\ objs'[lastCall'.obj].parent = want
              /\ cState = "enabled" =>
                    /\ Len(emitted') = Len(emitted) + 1
                    /\ emitted'[Len(emitted')].id = lastCall'.obj
                    /\ emitted'[Len(emitted')].parent = want]_vars

(* ------------------------------------------------------------------ *)
(* Claims about add() after stop()                                     *)
(* ------------------------------------------------------------------ *)
\* C23: after stop() has returned, add() still returns True or False without
\* raising, True unless the queue is full, and the accepted record is put into the
\* queue; the worker takes no record from the queue, appends none and starts no
\* send any more, so that the record stays in the queue, unsent, until the next
\* flush() or stop(); and when a flush() called after stop() has returned, every
\* such record accepted before that call has been passed to Transport.send_batch.
C23_AddAfterStop ==
    /\ [][stopReturned =>
            /\ \A p \in Producers : Add(p) =>
                  /\ addRet'[p] \in {"True", "False"}
                  /\ addRet'[p] = "True" <=> ~QueueFull(queue, max_queue_size)
                  /\ addRet'[p] = "True" =>
                        (queue' = Append(queue, <<p, nextRec[p]>>) /\ ~mError')
            /\ ~(W_Get \/ W_Append \/ W_SendBegin)]_vars
    /\ []((lastReturned = "stop" /\ pcM = "idle") =>
            /\ lateAdds \subseteq SeqToSet(queue)
            /\ lateAdds \cap SentRecords = {})
    /\ []((stopReturned /\ lastReturned = "flush" /\ pcM = "idle") =>
            (lateAdds \cap mSnap) \subseteq SentRecords)

\* a record was accepted after stop() had returned, and the flush() called after
\* that has returned and has passed it to Transport.send_batch
C23_Witness ==
    /\ stopReturned /\ lastReturned = "flush" /\ pcM = "idle"
    /\ lateAdds # {}
    /\ lateAdds \subseteq mSnap
    /\ lateAdds \subseteq SentRecords
    /\ pcW = "exit"

\* the open generation scopes and start_generation() contexts, as indices of frames
GenFrames == {i \in 1..Len(frames) : frames[i].wrap \in {"generation", "started"}}

MatchingType(shape) ==
    CASE shape = "number" -> "NUMERIC"
      [] shape = "boolean" -> "BOOLEAN"
      [] shape = "string" -> "CATEGORICAL"

\* C27: every score-create record carries the dataType that matches the shape of
\* its value, also when score() was called without data_type; and on an enabled
\* client every score() call enqueues its record, whether or not the trace or the
\* observation it names has ended.
C27_ScoreDataType ==
    /\ [][\A t \in ObjIds, o \in {0} \cup ObservationIds, sh \in ValueShapes,
            dt \in DataTypeArgs :
              (Score(t, o, sh, dt) /\ cState = "enabled") =>
                  /\ Len(emitted') = Len(emitted) + 1
                  /\ emitted'[Len(emitted')].type = "score-create"
                  /\ emitted'[Len(emitted')].trace = t]_vars
    /\ [](\A i \in 1..Len(emitted) :
            emitted[i].type = "score-create" =>
                emitted[i].dataType = MatchingType(emitted[i].value))

(* ------------------------------------------------------------------ *)
(* Claims about terminal commands                                      *)
(* ------------------------------------------------------------------ *)
\* C28: usage failure is raised: the global run() called without a client while
\* no client is current, or without a trace_id while no trace is current, raises
\* RuntimeError; the command is not run, no record is enqueued and no info made.
C28_UsageFailureRaised ==
    [][\A cg \in BOOLEAN, ta \in {0} \cup ObjIds, ex \in CommandExits :
          (/\ TerminalRun(cg, ta, ex)
           /\ \/ ~cg /\ ctxv["t1"]["client"] = 0
              \/ ta = 0 /\ CurTrace = 0) =>
              /\ lastCall'.outcome = "RuntimeError"
              /\ lastCall'.runs = 0
              /\ emitted' = emitted
              /\ queue' = queue
              /\ nInfos' = nInfos]_vars

\* run() was called without a trace_id on an enabled client whose only trace had
\* ended, so that no trace was current: it raised
C28_Witness ==
    /\ cState = "enabled"
    /\ lastCall.at = oNow
    /\ lastCall.op = "terminal-run"
    /\ lastCall.outcome = "RuntimeError"
    /\ lastCall.runs = 0
    /\ CurTrace = 0
    /\ \E t \in ObjIds : objs[t].kind = "trace" /\ objs[t].ended
    /\ Len(emitted) = 2

\* C29: on an enabled client a terminal_scope enqueues exactly one
\* terminal-command-create record, when its block ends, by a return or by an
\* exception, and none before; when the block raises an Exception the record has
\* success = false and exitCode = -1; and the caller gets the exception.
C29_TerminalScopeRecord ==
    [][/\ \A oc \in Outcomes2 :
            (TermScopeExit(oc) /\ cState = "enabled") =>
                /\ Len(emitted') = Len(emitted) + 1
                /\ emitted'[Len(emitted')].type = "terminal-command-create"
                /\ emitted'[Len(emitted')].trace = frames[Top(frames)].obj
                /\ lastCall'.outcome = oc
                /\ lastCall'.runs = 1
                /\ oc = "Exception" =>
                      /\ emitted'[Len(emitted')].success = FALSE
                      /\ emitted'[Len(emitted')].exitCode = FailedExitCode
       /\ ((\E t \in ObjIds : TermScopeEnter(t))
              \/ (\E ex \in {0, 1}, su \in BOOLEAN : TermScopeSet(ex, su))) =>
                emitted' = emitted
      ]_vars

\* the block of a terminal_scope, whose context said exit_code 0 and success
\* True, raised an Exception: the one record of the scope says success = false
C29_Witness ==
    /\ cState = "enabled"
    /\ lastCall.at = oNow
    /\ lastCall.op = "terminal-exit"
    /\ lastCall.user = "Exception"
    /\ lastCall.outcome = "Exception"
    /\ Len(emitted) = 2
    /\ emitted[2].type = "terminal-command-create"
    /\ emitted[2].success = FALSE
    /\ emitted[2].exitCode = FailedExitCode

(* ------------------------------------------------------------------ *)
(* Claims about metadata and update()                                  *)
(* ------------------------------------------------------------------ *)
\* C24: EventRecord immutability: a record that waits in the queue is not
\* changed by a later call: the metadata its body carries stays what it was when
\* the record was enqueued, whatever Trace.update(metadata=...) or the holder of
\* the metadata dict does afterwards. (The other fields of a body are values that
\* nothing can change.)
C24_RecordImmutable ==
    [][\A i \in 1..Len(queue) :
          (i <= Len(queue') /\ queue'[i] = queue[i]) =>
              BodyMeta(queue[i], objs') = BodyMeta(queue[i], objs)]_vars

\* C25: update() on a Trace or an observation that has not ended merges the
\* metadata it is given key by key into the metadata of the object, replaces the
\* other fields it is given, leaves the fields it is not given, and on an enabled
\* client enqueues exactly one *-update record, whose body is the state of the
\* object after the update (Trace.update; GenerationContext.update).
C25_UpdateMerges ==
    [][/\ \A t \in ObjIds, n \in NameArgs, out \in OutArgs, md \in MetaArgs :
            (TraceUpdate(t, n, out, md) /\ ~objs[t].ended) =>
                /\ objs' = [objs EXCEPT ![t] = [@ EXCEPT !.name = Arg(n, @),
                                                         !.output = Arg(out, @),
                                                         !.metadata = Merge(@, md)]]
                /\ cState = "enabled" =>
                      /\ Len(emitted') = Len(emitted) + 1
                      /\ emitted'[Len(emitted')].type = "trace-update"
                      /\ emitted'[Len(emitted')].id = t
                      /\ emitted'[Len(emitted')].name = objs'[t].name
                      /\ emitted'[Len(emitted')].output = objs'[t].output
                      /\ BodyMeta(emitted'[Len(emitted')], objs') = objs'[t].metadata
       /\ \A i \in GenFrames, out \in OutArgs, um \in UsageModelArgs, md \in MetaArgs :
            (/\ CtxUpdate(i, out, um, md)
             /\ frames[i].obj # 0 /\ ~frames[i].ctxEnded
             /\ ~objs[frames[i].obj].ended) =>
                LET g == frames[i].obj IN
                /\ objs' = [objs EXCEPT ![g] = [@ EXCEPT !.output = Arg(out, @),
                                                         !.usage = Arg(um[1], @),
                                                         !.model = Arg(um[2], @),
                                                         !.metadata = Merge(@, md)]]
                /\ cState = "enabled" =>
                      /\ Len(emitted') = Len(emitted) + 1
                      /\ emitted'[Len(emitted')].type = "generation-update"
                      /\ emitted'[Len(emitted')].id = g
                      /\ emitted'[Len(emitted')].output = objs'[g].output
                      /\ emitted'[Len(emitted')].usage = objs'[g].usage
                      /\ emitted'[Len(emitted')].model = objs'[g].model
      ]_vars

(* ------------------------------------------------------------------ *)
(* Claims about shutdown                                               *)
(* ------------------------------------------------------------------ *)
\* C31: worker termination: once stop() has set the stop signal the worker
\* eventually leaves its loop (every send_batch call returning); a worker that
\* reads the signal at the top of the loop starts no further iteration and stays
\* out of the loop; stop() returns, and it does not wait for the end of a send the
\* worker is in (the join gives up after its timeout); a stop() called again after
\* that returns as well, and no exception reaches the caller of either.
C31_WorkerTermination ==
    /\ stopCalled ~> (pcW = "exit")
    /\ [][/\ (pcW = "while" /\ ~running) => pcW' \in {"while", "exit"}
          /\ pcW = "exit" => pcW' = "exit"]_vars
    /\ [](\A n \in 1..MaxStopCalls :
            (stopCalls = n /\ pcM # "idle") ~> (stopCalls = n /\ pcM = "idle"))
    /\ []((pcM = "join" /\ pcW \in {"sending", "exit"}) => ENABLED M_Join)
    /\ [](~mError)

\* stop() was called a second time after the first had returned, the second call
\* has returned too, and the worker, which had sent a batch, has left its loop
C31_Witness ==
    /\ stopCalls = 2
    /\ pcM = "idle"
    /\ lastReturned = "stop"
    /\ pcW = "exit"
    /\ sent # <<>>
    /\ ~mError

(* ------------------------------------------------------------------ *)
(* Claims about nested wrappers and the current-trace slot             *)
(* ------------------------------------------------------------------ *)
\* C32: nested decorator parentage: when a wrapped function that has an observation
\* of its own calls another wrapped function, which makes an observation too, the
\* inner observation has the outer one as its parent and belongs to the same trace.
C32_NestedParentage ==
    \A i \in 1..(Len(frames) - 1) :
        LET outerF == frames[i]
            innerF == frames[i + 1]
        IN (/\ outerF.wrap = "observe" /\ innerF.wrap = "observe"
            /\ outerF.obj # 0 /\ innerF.obj # 0
            /\ objs[outerF.obj].kind # "trace"
            /\ objs[innerF.obj].kind # "trace")
           => /\ objs[innerF.obj].parent = outerF.obj
              /\ objs[innerF.obj].trace = objs[outerF.obj].trace

\* C33: client.trace() leaves the new trace T in the current-trace slot; T.end()
\* leaves the slot empty when it held T, and leaves the slot as it was when it held
\* another trace (or none).
C33_TraceSlot ==
    /\ []((lastCall.op = "trace" /\ lastCall.at = oNow) => CurTrace = lastCall.obj)
    /\ [][\A t \in ObjIds, out \in OutArgs :
            TraceEnd(t, out) =>
                CurTrace' = (IF CurTrace = t THEN 0 ELSE CurTrace)]_vars

(* ------------------------------------------------------------------ *)
(* Claims about concurrent end() calls                                 *)
(* ------------------------------------------------------------------ *)
\* C34: end-once under concurrency: when two threads have called end() on the same
\* Trace, Span or Generation and both calls have returned, end_time has been set
\* exactly once and (on an enabled client) exactly one update record made by end()
\* has been passed to the queue, whatever the interleaving of the two calls.
C34_EndOnceConcurrent ==
    (\A th \in EndThreads : endPc[th] = "done") =>
        /\ endTimeSets = 1
        /\ Cardinality(EndRecordsOf(endTarget)) = (IF cState = "enabled" THEN 1 ELSE 0)

(* ------------------------------------------------------------------ *)
(* Claims about the backoff of HttpTransport                           *)
(* ------------------------------------------------------------------ *)
\* the attempts (loop indexes k = 0, 1, ...) of the current call that failed with a
\* 5xx, a timeout or a connection error and were followed by a sleep
BackedOff == {k \in 0..(Len(hWaits) - 1) : IsTransient(hLog[k + 1])}

\* C35: backoff schedule: the sleep after attempt k of a call, when that attempt
\* failed with a 5xx, a timeout or a connection error, is 0.5 * 2^k seconds (500,
\* 1000, 2000 ms for k = 0, 1, 2); these sleeps are strictly increasing within one
\* call; every such attempt is followed by its sleep; and every call starts with
\* attempt 0.
C35_BackoffSchedule ==
    /\ [](\A k \in BackedOff : 500 * hWaits[k + 1] = 500 * (2 ^ k))
    /\ [](\A j \in BackedOff, k \in BackedOff : j < k => hWaits[j + 1] < hWaits[k + 1])
    /\ [](\A i \in 1..Len(hLog) : IsTransient(hLog[i]) => i <= Len(hWaits))
    /\ [][hCalls' = hCalls + 1 => hAttempt' = 0]_vars
    /\ []((hPc = "loop" /\ hLog = <<>>) => hAttempt = 0)

\* a second call on the transport, made after a call that had backed off, has slept
\* 500 ms, 1000 ms and 2000 ms after three failed attempts
C35_Witness ==
    /\ hCalls = 2
    /\ hMax = 3
    /\ Len(hLog) = 3
    /\ \A i \in 1..3 : IsTransient(hLog[i])
    /\ hLog[1].kind = "status" /\ hLog[2].kind = "TimeoutException"
    /\ hLog[3].kind = "RequestError"
    /\ hWaits = <<1, 2, 4>>

\* C36: a generation() / ageneration() scope leaves the current trace as it found
\* it: when the block ends, normally or by an exception, without its body having
\* made any call on the client, the current-trace slot holds what it held when the
\* scope was entered, also when it held no trace then.
C36_GenerationScopeKeepsTrace ==
    [][\A oc \in Outcomes2 :
          (/\ GenScopeExit(oc)
           /\ lastCall.op = "generation-enter"
           /\ lastCall.at = oNow)
          => CurTrace' = frames[Top(frames)].entryTrace]_vars

\* C37: the current observation is never an ended observation: after any sequence
\* of start_generation() and GenerationContext.end() calls of one task, in any
\* order, the current-observation slot is empty or holds an observation that has
\* not ended.
C37_CurrentObservationLive ==
    CurObs # 0 => ~objs[CurObs].ended

(* ------------------------------------------------------------------ *)
(* Claims about the size of the batches                                *)
(* ------------------------------------------------------------------ *)
\* C38: accumulator bound: with flush_at >= 1 the accumulator never holds more than
\* flush_at records, a batch the worker passes to send_batch has between 1 and
\* flush_at records, and no batch passed to send_batch, by the worker or by
\* flush(), is empty.
C38_AccumulatorBound ==
    /\ Len(batch) <= flush_at
    /\ pcW \in {"send", "sending"} => (Len(wEvents) >= 1 /\ Len(wEvents) <= flush_at)
    /\ pcM \in {"send", "sending"} => mEvents # <<>>
    /\ \A i \in 1..Len(sent) : sent[i] # <<>>

\* more records were added than flush_at: the worker has sent a full batch of
\* flush_at records and has filled the accumulator up to flush_at again, with
\* nobody calling flush() or stop()
C38_Witness ==
    /\ flush_at < MaxAdds
    /\ Cardinality(Accepted) > flush_at
    /\ flushCalls = 0 /\ ~stopCalled
    /\ Len(sent) = 1
    /\ Len(sent[1]) = flush_at
    /\ pcW = "check"
    /\ Len(batch) = flush_at

(* ------------------------------------------------------------------ *)
(* Claims about AsyncBatchQueue                                        *)
(* ------------------------------------------------------------------ *)
\* the positions <<batch number, index in the batch>> at which Transport.send_batch
\* received record r from the AsyncBatchQueue
AsyncPositions(r) == {x \in (1..Len(aSent)) \X (1..(MaxAdds + 1)) :
                        x[2] <= Len(aSent[x[1]]) /\ aSent[x[1]][x[2]] = r}

\* C39: AsyncBatchQueue with flush_at >= 1: after every add() pending_count is below
\* flush_at and at most max_queue_size; the add() that brings the pending count to
\* flush_at passes all pending records, in insertion order, to send_batch in one
\* call and empties the batch; flush() on an empty batch calls the transport not
\* at all; and a batch whose send failed or raised is discarded (not kept, not
\* sent again) with no exception reaching the caller.
C39_AsyncQueue ==
    /\ [](aLast.op = "add" => (Len(aBatch) < aFlushAt /\ Len(aBatch) <= aMaxQueueSize))
    /\ [][\A o \in SendOutcomes :
            (A_Add(o) /\ aLast'.ret = "True" /\ Len(aBatch) + 1 = aFlushAt) =>
                /\ aSent' = Append(aSent, Append(aBatch, aAdded + 1))
                /\ aBatch' = <<>>]_vars
    /\ [][\A op \in {"flush", "stop"}, o \in SendOutcomes :
            (A_Flush(op, o) /\ aBatch = <<>>) => (aSent' = aSent /\ aBatch' = <<>>)]_vars
    /\ [](~aLast.raised)
    /\ [](\A r \in aFailed :
            /\ \A i \in 1..Len(aBatch) : aBatch[i] # r
            /\ Cardinality(AsyncPositions(r)) = 1)

\* the second add() brought the pending count to flush_at = 2: it returned True,
\* the two records went to send_batch in one batch, in order, the send raised or
\* failed, and the batch is empty
C39_Witness ==
    /\ aFlushAt = 2
    /\ aLast.op = "add" /\ aLast.ret = "True"
    /\ aLast.before = <<1>>
    /\ aSent = <<(<<1, 2>>)>>
    /\ aFailed = {1, 2}
    /\ aBatch = <<>>

====
